---- MODULE Spec2Model ----
(***************************************************************************)
(* Model of the application-lifecycle state coordinator of the test       *)
(* harness (test/framework/core.py: CFManager, with its callers in        *)
(* test/framework/decorators.py, test/framework/runner.py and             *)
(* test/conftest.py).                                                      *)
(*                                                                         *)
(* The control plane (the cf command line tool) is the environment: the   *)
(* outcome of every command the harness issues is chosen by \E.  The      *)
(* commands of the main thread are appended to cmdLog, the command of a    *)
(* worker thread is kept in workers, and the commands of a direct status   *)
(* probe in lastProbe; all three are reset when a top-level operation      *)
(* returns to its caller.                                                  *)
(***************************************************************************)
EXTENDS Integers, Sequences, FiniteSets, TLC

VARIABLES
    now,         \* time.time(), in seconds
    ticks,       \* number of clock advances so far (bounds the clock)
    curConfig,   \* CFConfig of the coordinator: the five login fields
    loginFile,   \* cf_login_state_<user>.json
    cfTarget,    \* what the cf CLI is targeted at / logged in as
    cmdLog,      \* commands issued by the current top-level operation
    lastLogin,   \* history: the login() call that has just returned
    prevLogin,   \* history: the login() call immediately before lastLogin
    pc,          \* position of the coordinator's main thread
    op,          \* the batch operation being executed
    stack,       \* the callers of the batch operation, innermost last
    origin,      \* the lifecycle path the commands are issued on
    app_statuses,\* result of check_all_apps_status in the running operation
    workers,     \* the threads of the running parallel operation, per app
    success,     \* return value of the operation that has just finished
    lastProbe,   \* history: the direct check_all_apps_status call that has just returned
    restartFile, \* cf_restart_state_<user>.json
    restartMode, \* the RESTART_APPS environment variable, lower-cased
    cf_logged_in,\* CFJavaTestSession._cf_logged_in
    initialized, \* CFJavaTestSession._initialized
    test,        \* the test whose after-test hooks are running
    lastAdd,     \* history: the add_deferred_restart_app call that has just returned
    lastAssert,  \* history: the should_succeed call that has just returned
    raised,      \* the operation that has just ended raised an exception
    lastTeardown,\* history: the teardown_session call that has just returned
    lastCommand, \* history: the run_command call that has just returned
    stats_file,  \* cf_stats_pytest_<user>.json, the persisted ledger
    cf_command_stats, \* GlobalCFCommandStats.cf_command_stats of this process
    stats_enabled,    \* the CF_COMMAND_STATS environment variable is "true"
    cls_stats_file,   \* GlobalCFCommandStats._stats_file is set (class attribute)
    lastStat,    \* history: the add_command_stat call that has just returned
    interrupt_count,  \* conftest._interrupt_count of the pytest process
    launcher_interrupt_count, \* test._interrupt_count of the launcher
    processes,   \* the pytest process and the launcher: running or terminated
    lastInterrupt, \* history: the SIGINT handler that has just run
    assigned,    \* xdist: the worker every collected test item is assigned to
    running,     \* xdist: the test item every worker is running
    finished,    \* xdist: the test items that have been run
    app_status_cache, \* CFManager._app_status_cache, with the time of each probe
    cache_timestamp,  \* CFManager._cache_timestamp
    lastStatus,  \* history: the check_app_status(use_cache=True) call that has just returned
    lastSwap,    \* history: the apps of the queue swapped out by the direct
                 \* process_deferred_restarts call in progress
    lastParse,   \* history: the call that has just parsed a `cf apps` listing
    tpc,         \* where every thread is in the call it is running
    tproc,       \* the OS process of every thread
    stats_lock,  \* GlobalCFCommandStats._lock of every process: the holder
    proc_stats,  \* the list cf_command_stats of the tracker of every process
    recorded,    \* history: the entries of the add_command_stat calls that returned
    overlapped,  \* history: two processes were inside add_command_stat at once
    mgr_lock,    \* CFManager._lock: the thread that holds it
    tcall,       \* the manager call every thread is running
    collected,   \* history: the queue entries every call has taken out
    appended     \* history: the threads whose add_deferred_restart_app appended

loginVars == <<now, ticks, curConfig, loginFile, cfTarget, lastLogin, prevLogin>>

batchVars == <<pc, op, stack, origin, app_statuses, workers, success, lastProbe>>

sessionVars == <<restartFile, restartMode, cf_logged_in, initialized, test>>

\* the command statistics of the process
statsVars == <<stats_file, cf_command_stats, stats_enabled, cls_stats_file, lastStat>>

\* the processes and their SIGINT handlers
intVars == <<interrupt_count, launcher_interrupt_count, processes, lastInterrupt>>

\* the scheduler of a parallel run
schedVars == <<assigned, running, finished>>

\* the status cache
cacheVars == <<app_status_cache, cache_timestamp, lastStatus>>

\* the subsystems but the command statistics
nonStatsVars == <<intVars, schedVars, cacheVars>>

\* the threads of the manager: the lock and the calls in progress
mgrVars == <<mgr_lock, tcall, collected, appended>>

\* threads and processes running at the same time
concVars == <<tpc, tproc, stats_lock, proc_stats, recorded, overlapped, mgrVars>>

\* the state of the subsystems the lifecycle operations never touch
auxVars == <<statsVars, nonStatsVars, lastSwap, lastParse, concVars>>

\* the history of should_succeed, teardown_session and run_command, the
\* exception flag, and the subsystems above
moreVars == <<lastAssert, raised, lastTeardown, lastCommand, auxVars>>

\* everything but the batch state and the command log

otherVars == <<loginVars, sessionVars, lastAdd, moreVars>>

-----------------------------------------------------------------------------
(* Bounds *)

MaxTicks == 3

NumApps == 3

MaxDeferred == 2

\* the longest command list passed to run_command
MaxCmds == 2

\* entries of the command statistics
MaxStats == 3

\* SIGINT signals delivered to one process
MaxInterrupts == 3

\* lines of a `cf apps` listing
MaxRows == 2

\* workers of a parallel run (-n)
NumWorkers == 2

\* threads that call the tracker or the manager at the same time
NumThreads == 3

(* Program constants *)

\* _clear_app_cache_if_stale(max_age_seconds=30)
CacheMaxAge == 30

LoginTTL == 1800

-----------------------------------------------------------------------------
(* Configuration: the login fingerprint {username, password, api_endpoint, *)
(* org, space}.                                                             *)

Fields == {"username", "password", "api_endpoint", "org", "space"}

BaseConfig ==
    [username |-> "u1", password |-> "p1", api_endpoint |-> "a1",
     org |-> "o1", space |-> "s1"]

AltConfig(f) == [BaseConfig EXCEPT ![f] = "other"]

Configs == {BaseConfig} \cup {AltConfig(f) : f \in Fields}

\* the empty dict {} of the default login state
EmptyConfig == [f \in {} |-> ""]

\* clock advances between operations: 5 minutes, 25 minutes
TickSteps == {300, 1500}

-----------------------------------------------------------------------------
(* Commands *)

Cmd(c, a, ok, by) == [cmd |-> c, app |-> a, ok |-> ok, by |-> by]

LifecycleCmds == {"start", "restart"}

Issued(log, c) == \E i \in 1..Len(log) : log[i].cmd = c

CountCmd(log, c) == Cardinality({i \in 1..Len(log) : log[i].cmd = c})

-----------------------------------------------------------------------------
(* Persisted login state *)

DefaultLoginState ==
    [logged_in |-> FALSE, login_config |-> EmptyConfig, login_timestamp |-> 0]

\* what the state file holds: shape "state" is a JSON object with the
\* three keys, "invalid" a file json.load fails on, "no_logged_in" a JSON
\* object without the key logged_in, "list" a JSON list
LoginFileShapes == {"state", "invalid", "no_logged_in", "list"}

NoLoginFile == [present |-> FALSE, shape |-> "state", state |-> DefaultLoginState]

\* _load_login_state(): the default state when the file is missing or
\* json.load raises, else whatever json.load returns
load_login_state ==
    IF loginFile.present /\ loginFile.shape # "invalid"
    THEN loginFile.state ELSE DefaultLoginState

\* login_state["logged_in"] raises on what _load_login_state returned
LoginFileMalformed ==
    loginFile.present /\ loginFile.shape \in {"no_logged_in", "list"}

save_login_state_Dropped(state) == loginFile

save_login_state(state) == [present |-> TRUE, shape |-> "state", state |-> state]

NewLoginState_LoggedOut(cfg, t) ==
    [logged_in |-> FALSE, login_config |-> cfg, login_timestamp |-> t]

NewLoginState(cfg, t) ==
    [logged_in |-> TRUE, login_config |-> cfg, login_timestamp |-> t]

\* login(): the persisted-state shortcut
LoginAgeValid_Inclusive(age) == age <= LoginTTL

LoginAgeValid(age) == age < LoginTTL

LoginStateValid_AnyConfig(st, cfg, t) ==
    /\ st.logged_in
    /\ LoginAgeValid(t - st.login_timestamp)

LoginStateValid(st, cfg, t) ==
    /\ st.logged_in
    /\ st.login_config = cfg
    /\ LoginAgeValid(t - st.login_timestamp)

-----------------------------------------------------------------------------
(* cf target *)

NoTarget == [api |-> "", user |-> "", org |-> "", space |-> ""]

TargetOf(cfg) ==
    [api |-> cfg.api_endpoint, user |-> cfg.username,
     org |-> cfg.org, space |-> cfg.space]

\* the parsed report of `cf target`; the empty dict when the command failed
check_current_cf_target(failed) == IF failed THEN NoTarget ELSE cfTarget

is_logged_in_correctly(target_info, cfg) ==
    /\ target_info # NoTarget
    /\ target_info.api = cfg.api_endpoint
    /\ target_info.user = cfg.username
    /\ target_info.org = cfg.org
    /\ target_info.space = cfg.space

-----------------------------------------------------------------------------
(* login() *)

NoCall == [called |-> FALSE]

\* a returned login() call: the state it loaded, whether the file existed,
\* its config, its time, what `cf target` reported, its result, its commands
LoginCall(pre, present, cfg, t, probe, ret, cmds) ==
    [called |-> TRUE, pre |-> pre, present |-> present, config |-> cfg,
     t |-> t, probe |-> probe, ret |-> ret, cmds |-> cmds]

\* login(): the state file after `cf login` failed: nothing is written
FailedLoginFile_WritesLoggedIn(file, cfg, t) == save_login_state(NewLoginState(cfg, t))

FailedLoginFile(file, cfg, t) == file

\* what login() does, given the outcome of `cf target` and of `cf login`:
\* <<return value, commands issued, state file, cf target>>
\* file: the state file login() finds, t: the time it is called at
LoginOutcomeAt(file, t, targetFailed, authOk, targetAfterFail) ==
    LET st == IF file.present /\ file.shape # "invalid"
              THEN file.state ELSE DefaultLoginState
        tcmd == Cmd("target", 0, ~targetFailed, "login")
    IN  IF LoginStateValid(st, curConfig, t)
        THEN <<TRUE, <<>>, file, cfTarget>>
        ELSE IF is_logged_in_correctly(check_current_cf_target(targetFailed), curConfig)
        THEN <<TRUE, <<tcmd>>,
               save_login_state(NewLoginState(curConfig, t)), cfTarget>>
        ELSE IF authOk
        THEN <<TRUE, <<tcmd, Cmd("login", 0, TRUE, "login")>>,
               save_login_state(NewLoginState(curConfig, t)), TargetOf(curConfig)>>
        ELSE <<FALSE, <<tcmd, Cmd("login", 0, FALSE, "login")>>,
               FailedLoginFile(file, curConfig, t), targetAfterFail>>

LoginOutcome(targetFailed, authOk, targetAfterFail) ==
    LoginOutcomeAt(loginFile, now, targetFailed, authOk, targetAfterFail)

login ==
    /\ pc = "idle"
    /\ IF LoginFileMalformed
       THEN /\ raised' = TRUE
            /\ pc' = "done"
            /\ op' = "login"
            /\ success' = FALSE
            /\ lastLogin' = NoCall
            /\ prevLogin' = NoCall
            /\ UNCHANGED <<loginFile, cfTarget, cmdLog>>
            /\ UNCHANGED <<stack, origin, app_statuses, workers, lastProbe>>
       ELSE \E targetFailed \in BOOLEAN, authOk \in BOOLEAN,
               targetAfterFail \in {cfTarget, NoTarget} :
               LET out == LoginOutcome(targetFailed, authOk, targetAfterFail)
               IN  /\ cmdLog' = out[2]
                   /\ loginFile' = out[3]
                   /\ cfTarget' = out[4]
                   /\ lastLogin' = LoginCall(load_login_state, loginFile.present,
                                             curConfig, now,
                                             check_current_cf_target(targetFailed),
                                             out[1], out[2])
                   /\ prevLogin' = lastLogin
                   /\ raised' = FALSE
                   /\ UNCHANGED batchVars
    /\ UNCHANGED <<now, ticks, curConfig>>
    /\ UNCHANGED <<sessionVars, lastAdd, lastAssert, lastTeardown, lastCommand, auxVars>>

reset_global_login_state ==
    /\ loginFile' = save_login_state(DefaultLoginState)
    /\ lastLogin' = NoCall
    /\ prevLogin' = NoCall
    /\ UNCHANGED <<now, ticks, curConfig, cfTarget, cmdLog>>
    /\ UNCHANGED <<batchVars, sessionVars, lastAdd, moreVars>>

\* the login-state part of cleanup_state_files
cleanup_login_state_file ==
    /\ loginFile.present
    /\ loginFile' = NoLoginFile
    /\ lastLogin' = NoCall
    /\ prevLogin' = NoCall
    /\ UNCHANGED <<now, ticks, curConfig, cfTarget, cmdLog>>
    /\ UNCHANGED <<batchVars, sessionVars, lastAdd, moreVars>>

-----------------------------------------------------------------------------
(* Environment of login *)

Tick ==
    /\ ticks < MaxTicks
    /\ \E d \in TickSteps : now' = now + d
    /\ ticks' = ticks + 1
    /\ lastLogin' = NoCall
    /\ prevLogin' = NoCall
    /\ UNCHANGED <<curConfig, loginFile, cfTarget, cmdLog>>
    /\ UNCHANGED <<batchVars, sessionVars, lastAdd, moreVars>>

\* a coordinator of another invocation, with other environment overrides
Reconfigure ==
    /\ \E c \in Configs \ {curConfig} : curConfig' = c
    /\ lastLogin' = NoCall
    /\ prevLogin' = NoCall
    /\ UNCHANGED <<now, ticks, loginFile, cfTarget, cmdLog>>
    /\ UNCHANGED <<batchVars, sessionVars, lastAdd, moreVars>>

\* the control plane drops the session
TargetLost ==
    /\ cfTarget # NoTarget
    /\ cfTarget' = NoTarget
    /\ lastLogin' = NoCall
    /\ prevLogin' = NoCall
    /\ UNCHANGED <<now, ticks, curConfig, loginFile, cmdLog>>
    /\ UNCHANGED <<batchVars, sessionVars, lastAdd, moreVars>>

-----------------------------------------------------------------------------
(* Configured apps: config.apps.values(), in configuration order *)

Apps == 1..NumApps

AppSeq == [i \in 1..NumApps |-> i]

Statuses == {"running", "stopped", "crashed", "unknown"}

-----------------------------------------------------------------------------
(* Status probe: check_all_apps_status and check_app_status *)

\* the process column of a `cf apps` line, e.g. web:1/1
\*   colon: the column holds ":"; slash: the part after ":" holds "/";
\*   numeric: the text before "/" is an integer, running
PNone    == [colon |-> FALSE, slash |-> FALSE, numeric |-> FALSE, running |-> 0]
POneOne  == [colon |-> TRUE, slash |-> TRUE, numeric |-> TRUE, running |-> 1]
PZeroOne == [colon |-> TRUE, slash |-> TRUE, numeric |-> TRUE, running |-> 0]
PNotNum  == [colon |-> TRUE, slash |-> TRUE, numeric |-> FALSE, running |-> 0]
PNoSlash == [colon |-> TRUE, slash |-> FALSE, numeric |-> TRUE, running |-> 1]

ProcColumns == {PNone, POneOne, PZeroOne, PNotNum, PNoSlash}

\* the line of the report whose first column is the app's name, after
\* split(): the number of columns, the requested state (lower-cased) and the
\* process column; ncols = 0 stands for no such line
Line(n, st, pr) == [ncols |-> n, state |-> st, procs |-> pr]

NoLine == Line(0, "", PNone)

AppLines ==
    {NoLine, Line(2, "started", PNone), Line(3, "stopped", PZeroOne),
     Line(3, "other", POneOne)}
    \cup {Line(3, "started", pr) : pr \in ProcColumns}

\* check_all_apps_status: the status a report line gives its app
LineStatus_StartedIsRunning(line) ==
    IF line.state = "stopped" THEN "stopped"
    ELSE IF line.state = "started" THEN "running"
    ELSE "unknown"

LineStatus(line) ==
    IF line.state = "stopped" THEN "stopped"
    ELSE IF line.state = "started"
    THEN IF ~line.procs.colon THEN "running"
         ELSE IF ~line.procs.slash THEN "unknown"
         ELSE IF ~line.procs.numeric THEN "unknown"
         ELSE IF line.procs.running > 0 THEN "running"
         ELSE "stopped"
    ELSE "unknown"

\* whether the report line gives its app a status at all (len(parts) >= 3)
LineCounts_TwoColumns(line) == line.ncols >= 2

LineCounts(line) == line.ncols >= 3

\* `cf app <name>`: the command failed, or the words its output contains
AppOutputs ==
    {[failed |-> TRUE, words |-> {}]}
    \cup {[failed |-> FALSE, words |-> w] : w \in SUBSET {"running", "stopped", "crashed"}}

check_app_status_FailedIsStopped(out) ==
    IF out.failed THEN "stopped"
    ELSE IF "running" \in out.words THEN "running"
    ELSE IF "stopped" \in out.words THEN "stopped"
    ELSE IF "crashed" \in out.words THEN "crashed"
    ELSE "unknown"

\* check_app_status(app_name, use_cache=False)
check_app_status(out) ==
    IF out.failed THEN "unknown"
    ELSE IF "running" \in out.words THEN "running"
    ELSE IF "stopped" \in out.words THEN "stopped"
    ELSE IF "crashed" \in out.words THEN "crashed"
    ELSE "unknown"

NoOutputs == [a \in {} |-> [failed |-> TRUE, words |-> {}]]

ProbedSingly_OnlyOnFailure(listFailed, lines) == {a \in Apps : listFailed}

\* the apps check_all_apps_status probes one by one
ProbedSingly(listFailed, lines) ==
    {a \in Apps : listFailed \/ ~LineCounts(lines[a])}

\* check_all_apps_status: the statuses it holds once the apps of DOMAIN outs
\* have been probed singly
AllAppsStatus(listFailed, lines, outs) ==
    [a \in (Apps \ ProbedSingly(listFailed, lines)) \cup DOMAIN outs |->
        IF a \in DOMAIN outs
        THEN check_app_status(outs[a])
        ELSE LineStatus(lines[a])]

\* the commands check_all_apps_status has issued by then, in order
ProbeCmds(listFailed, lines, outs, by) ==
    LET singly == SelectSeq(AppSeq, LAMBDA a : a \in DOMAIN outs)
    IN  <<Cmd("apps", 0, ~listFailed, by)>>
        \o [i \in 1..Len(singly) |-> Cmd("app", singly[i], ~outs[singly[i]].failed, by)]

NoStatuses == [a \in {} |-> "unknown"]

NoProbe == [called |-> FALSE]

\* a check_all_apps_status call: what the control plane answered, the
\* commands issued and the statuses held
ProbeCall(listFailed, lines, outs, by) ==
    [called |-> TRUE, listFailed |-> listFailed, lines |-> lines, outs |-> outs,
     cmds |-> ProbeCmds(listFailed, lines, outs, by),
     statuses |-> AllAppsStatus(listFailed, lines, outs)]

\* app_statuses.get(app_name, "unknown")
StatusGet(statuses, a) ==
    IF a \in DOMAIN statuses THEN statuses[a] ELSE "unknown"

-----------------------------------------------------------------------------
(* Decision policy *)

\* restart_apps_if_needed / restart_apps_if_needed_parallel
SmartAction_StoppedRestarts(status) == "restart"

SmartAction(status) ==
    IF status = "running" THEN "restart"
    ELSE IF status \in {"stopped", "crashed"} THEN "start"
    ELSE "restart"

\* start_apps_if_needed / start_apps_if_needed_parallel
StartIfNeededAction(status) ==
    IF status # "running" THEN "start" ELSE "none"

\* the operations and what each issues for an app of the given status
SeqOps == {"restart_apps", "start_apps", "restart_apps_if_needed", "start_apps_if_needed"}

ParOps ==
    {"restart_apps_parallel", "start_apps_parallel",
     "restart_apps_if_needed_parallel", "start_apps_if_needed_parallel"}

BatchOps == SeqOps \cup ParOps

ProbingOps ==
    {"restart_apps_if_needed", "start_apps_if_needed",
     "restart_apps_if_needed_parallel", "start_apps_if_needed_parallel"}

AppsWith(statuses, Action(_), c) ==
    SelectSeq(AppSeq, LAMBDA a : Action(StatusGet(statuses, a)) = c)

-----------------------------------------------------------------------------
(* Sequential execution *)

AllOk(cmds) == \A i \in 1..Len(cmds) : cmds[i].ok

\* `for app_name in apps: run_command(...)`, okApps: the apps whose command
\* succeeds
RunEach_AbortOnFailure(apps, c, okApps, by) ==
    LET all == [i \in 1..Len(apps) |-> Cmd(c, apps[i], apps[i] \in okApps, by)]
        bad == {i \in 1..Len(apps) : ~all[i].ok}
    IN  IF bad = {} THEN all
        ELSE SubSeq(all, 1, CHOOSE i \in bad : \A j \in bad : i <= j)

RunEach(apps, c, okApps, by) ==
    [i \in 1..Len(apps) |-> Cmd(c, apps[i], apps[i] \in okApps, by)]

\* a sequential operation finishes: its commands are logged, its result set
SeqFinish(cmds) ==
    /\ cmdLog' = cmdLog \o cmds
    /\ success' = AllOk(cmds)
    /\ pc' = "done"
    /\ lastProbe' = NoProbe
    /\ UNCHANGED <<op, stack, origin, app_statuses, workers>>
    /\ UNCHANGED otherVars

restart_apps ==
    /\ pc = "run"
    /\ op = "restart_apps"
    /\ \E okApps \in SUBSET Apps :
          SeqFinish(RunEach(AppSeq, "restart", okApps, origin))

start_apps ==
    /\ pc = "run"
    /\ op = "start_apps"
    /\ \E okApps \in SUBSET Apps :
          SeqFinish(RunEach(AppSeq, "start", okApps, origin))

\* where a status probe continues once every app has a status
AfterProbe == IF op = "check_all_apps_status" THEN "done" ELSE "decide"

\* the status probe, called on its own or opening an *_if_needed operation:
\* `cf apps` and the parse of its report
check_all_apps_status ==
    /\ pc = "run"
    /\ op \in ProbingOps \cup {"check_all_apps_status"}
    /\ \E listFailed \in BOOLEAN, lines \in [Apps -> AppLines] :
          /\ listFailed => \A a \in Apps : lines[a] = NoLine
          /\ app_statuses' = AllAppsStatus(listFailed, lines, NoOutputs)
          /\ lastProbe' =
                IF op = "check_all_apps_status"
                THEN ProbeCall(listFailed, lines, NoOutputs, origin)
                ELSE NoProbe
          /\ pc' = IF ProbedSingly(listFailed, lines) = {} THEN AfterProbe
                   ELSE "probe"
    /\ UNCHANGED <<op, stack, origin, workers, success, cmdLog>>
    /\ UNCHANGED otherVars

\* the status probe: `cf app <name>` for the first app without a status
check_missing_app ==
    /\ pc = "probe"
    /\ LET missing == Apps \ DOMAIN app_statuses
           a == CHOOSE x \in missing : \A y \in missing : x <= y
       IN  \E out \in AppOutputs :
              /\ app_statuses' =
                    [b \in DOMAIN app_statuses \cup {a} |->
                        IF b = a THEN check_app_status(out) ELSE app_statuses[b]]
              /\ lastProbe' =
                    IF op = "check_all_apps_status"
                    THEN ProbeCall(lastProbe.listFailed, lastProbe.lines,
                                   [b \in DOMAIN lastProbe.outs \cup {a} |->
                                       IF b = a THEN out ELSE lastProbe.outs[b]],
                                   origin)
                    ELSE NoProbe
              /\ pc' = IF missing = {a} THEN AfterProbe ELSE "probe"
    /\ UNCHANGED <<op, stack, origin, workers, success, cmdLog>>
    /\ UNCHANGED otherVars

restart_apps_if_needed ==
    /\ pc = "decide"
    /\ op = "restart_apps_if_needed"
    /\ \E okApps \in SUBSET Apps :
          LET apps_to_restart == AppsWith(app_statuses, SmartAction, "restart")
              apps_to_start == AppsWith(app_statuses, SmartAction, "start")
          IN  SeqFinish(RunEach(apps_to_restart, "restart", okApps, origin)
                        \o RunEach(apps_to_start, "start", okApps, origin))

start_apps_if_needed ==
    /\ pc = "decide"
    /\ op = "start_apps_if_needed"
    /\ \E okApps \in SUBSET Apps :
          LET apps_to_start == AppsWith(app_statuses, StartIfNeededAction, "start")
          IN  SeqFinish(RunEach(apps_to_start, "start", okApps, origin))

-----------------------------------------------------------------------------
(* Parallel execution: one thread per app, joined by the coordinator *)

\* a thread: its command, whether it has ended (done), whether it has put a
\* result into results (stored), whether the stored command succeeded (ok)
\* and whether run_command raised KeyboardInterrupt in it (cancelled)
NoWorker ==
    [cmd |-> "none", by |-> "none", done |-> FALSE, ok |-> FALSE,
     stored |-> FALSE, cancelled |-> FALSE]

NoWorkers == [a \in Apps |-> NoWorker]

Dispatched == {a \in Apps : workers[a].cmd # "none"}

\* thread.start() for each app: cmdOf[a] is the command of a's thread
Dispatch(cmdOf) ==
    /\ workers' = [a \in Apps |->
                      IF cmdOf[a] = "none" THEN NoWorker
                      ELSE [NoWorker EXCEPT !.cmd = cmdOf[a], !.by = origin]]
    /\ pc' = "join"
    /\ lastProbe' = NoProbe
    /\ UNCHANGED <<op, stack, origin, app_statuses, success, cmdLog>>
    /\ UNCHANGED otherVars

\* nothing to do: the operation returns True without starting a thread
NothingToDo ==
    /\ success' = TRUE
    /\ pc' = "done"
    /\ lastProbe' = NoProbe
    /\ UNCHANGED <<op, stack, origin, app_statuses, workers, cmdLog>>
    /\ UNCHANGED otherVars

restart_apps_parallel ==
    /\ pc = "run"
    /\ op = "restart_apps_parallel"
    /\ Dispatch([a \in Apps |-> "restart"])

start_apps_parallel ==
    /\ pc = "run"
    /\ op = "start_apps_parallel"
    /\ Dispatch([a \in Apps |-> "start"])

restart_apps_if_needed_parallel ==
    /\ pc = "decide"
    /\ op = "restart_apps_if_needed_parallel"
    /\ Dispatch([a \in Apps |-> SmartAction(StatusGet(app_statuses, a))])

start_apps_if_needed_parallel ==
    /\ pc = "decide"
    /\ op = "start_apps_if_needed_parallel"
    /\ IF \A a \in Apps : StartIfNeededAction(StatusGet(app_statuses, a)) = "none"
       THEN NothingToDo
       ELSE Dispatch([a \in Apps |-> StartIfNeededAction(StatusGet(app_statuses, a))])

\* the thread of app a: runs its command and stores the result
Worker(a) ==
    /\ pc = "join"
    /\ workers[a].cmd # "none"
    /\ ~workers[a].done
    /\ \E ok \in BOOLEAN :
          workers' = [workers EXCEPT ![a] =
                         [@ EXCEPT !.done = TRUE, !.stored = TRUE, !.ok = ok]]
    /\ UNCHANGED <<pc, op, stack, origin, app_statuses, success, cmdLog, lastProbe>>
    /\ UNCHANGED otherVars

RunWorker == \E a \in Apps : Worker(a)

\* the operations whose thread functions catch KeyboardInterrupt and store
\* CommandResult(-1, "", "Cancelled by user", ...)
CatchesInterrupt(o) ==
    o \in {"restart_apps_if_needed_parallel", "start_apps_if_needed_parallel"}

\* the thread of app a: run_command raises KeyboardInterrupt; without a
\* handler the thread ends and nothing is stored for the app
WorkerCancelled(a) ==
    /\ pc = "join"
    /\ workers[a].cmd # "none"
    /\ ~workers[a].done
    /\ workers' = [workers EXCEPT ![a] =
                      [@ EXCEPT !.done = TRUE, !.cancelled = TRUE, !.ok = FALSE,
                                !.stored = CatchesInterrupt(op)]]
    /\ UNCHANGED <<pc, op, stack, origin, app_statuses, success, cmdLog, lastProbe>>
    /\ UNCHANGED otherVars

CancelWorker == \E a \in Apps : WorkerCancelled(a)

\* `for thread in threads: thread.join()` has returned
AllJoined_NoWait == TRUE

AllJoined == \A a \in Dispatched : workers[a].done

\* the aggregate over results.items()
Aggregate == \A a \in Dispatched : workers[a].stored => workers[a].ok

Join ==
    /\ pc = "join"
    /\ AllJoined
    /\ success' = Aggregate
    /\ pc' = "done"
    /\ UNCHANGED <<op, stack, origin, app_statuses, workers, cmdLog, lastProbe>>
    /\ UNCHANGED otherVars

-----------------------------------------------------------------------------
(* Entering a batch operation *)

\* control enters batch operation o, on lifecycle path `by`
BeginOp(o, by) ==
    /\ op' = o
    /\ origin' = by
    /\ pc' = "run"
    /\ app_statuses' = NoStatuses
    /\ workers' = NoWorkers
    /\ lastProbe' = NoProbe

-----------------------------------------------------------------------------
(* Persisted deferred-restart queue *)

TestClasses == {"ClassA", "ClassB"}

\* what the restart-state file holds: shape "entries" is the JSON object
\* {restart_entries: [...]} of well-formed entries, "no_app" the same with
\* entries that lack the key app, "legacy" the JSON object
\* {deferred_restart_apps: [...]} whose list of apps is in the field
\* entries, "invalid" a file json.load fails on, "list" a JSON list
RestartFileShapes == {"entries", "no_app", "legacy", "invalid", "list"}

NoRestartFile == [present |-> FALSE, shape |-> "entries", entries |-> <<>>]

\* the restart_entries of _load_restart_state()
load_restart_state ==
    IF ~restartFile.present THEN <<>>
    ELSE IF restartFile.shape \in {"entries", "no_app"} THEN restartFile.entries
    ELSE IF restartFile.shape = "legacy"
    THEN [i \in 1..Len(restartFile.entries) |->
             [app |-> restartFile.entries[i], test_class |-> "Unknown",
              reason |-> "Legacy"]]
    ELSE <<>>

\* entry["app"] raises on an entry of the loaded list
RestartFileMalformed == restartFile.present /\ restartFile.shape = "no_app"

save_restart_state(entries) ==
    [present |-> TRUE, shape |-> "entries", entries |-> entries]

Entry(a, c, r, t) == [app |-> a, test_class |-> c, reason |-> r, timestamp |-> t]

\* add_deferred_restart_app: the app is already in the list for this class
ExistingEntry_ByApp(entries, a, c) ==
    \E i \in 1..Len(entries) : entries[i].app = a

ExistingEntry(entries, a, c) ==
    \E i \in 1..Len(entries) : entries[i].app = a /\ entries[i].test_class = c

NoTest == [running |-> FALSE]

\* a top-level operation that is no batch operation has finished
Finished(o, r) ==
    /\ op' = o
    /\ success' = r
    /\ pc' = "done"
    /\ UNCHANGED <<stack, origin, app_statuses, workers, lastProbe>>

\* a top-level operation has ended by raising; nothing was written
Raised(o) ==
    /\ raised' = TRUE
    /\ Finished(o, FALSE)
    /\ UNCHANGED restartFile

add_deferred_restart_app ==
    /\ pc = "idle"
    /\ IF RestartFileMalformed
       THEN /\ Raised("add_deferred_restart_app")
            /\ UNCHANGED lastAdd
       ELSE /\ \E a \in Apps, c \in TestClasses :
                  LET entries == load_restart_state
                  IN  /\ ExistingEntry(entries, a, c) \/ Len(entries) < MaxDeferred
                      /\ restartFile' =
                            IF ExistingEntry(entries, a, c) THEN restartFile
                            ELSE save_restart_state(
                                     Append(entries,
                                            Entry(a, c, "no_restart=True", now)))
                      /\ lastAdd' = [called |-> TRUE, app |-> a, test_class |-> c,
                                     before |-> entries]
            /\ Finished("add_deferred_restart_app", TRUE)
            /\ UNCHANGED raised
    /\ UNCHANGED <<loginVars, cmdLog, restartMode, cf_logged_in, initialized, test>>
    /\ UNCHANGED <<lastAssert, lastTeardown, lastCommand, auxVars>>

has_deferred_restarts == load_restart_state # <<>>

clear_deferred_restart_apps ==
    /\ pc = "idle"
    /\ IF RestartFileMalformed
       THEN Raised("clear_deferred_restart_apps")
       ELSE /\ restartFile' =
                  IF load_restart_state # <<>> THEN save_restart_state(<<>>)
                  ELSE restartFile
            /\ Finished("clear_deferred_restart_apps", TRUE)
            /\ UNCHANGED raised
    /\ UNCHANGED <<loginVars, cmdLog, lastAdd, lastAssert, lastTeardown, lastCommand, auxVars>>
    /\ UNCHANGED <<restartMode, cf_logged_in, initialized, test>>

\* the restart-state part of cleanup_state_files
cleanup_restart_state_file ==
    /\ pc = "idle"
    /\ restartFile.present
    /\ restartFile' = NoRestartFile
    /\ Finished("cleanup_state_files", TRUE)
    /\ UNCHANGED <<loginVars, cmdLog, lastAdd, moreVars, restartMode, cf_logged_in, initialized, test>>

RestartModes == {"never", "always", "smart", "parallel", "smart_parallel", "other"}

\* process_deferred_restarts: the batch operation of a restart mode
DeferredOp(mode) ==
    CASE mode = "smart_parallel" -> "restart_apps_if_needed_parallel"
      [] mode = "smart" -> "restart_apps_if_needed"
      [] mode = "parallel" -> "restart_apps_parallel"
      [] mode = "always" -> "restart_apps"
      [] OTHER -> "restart_apps_if_needed_parallel"

\* process_deferred_restarts: the persisted queue after the entries are
\* collected
SwappedOut_KeepsQueue(entries) == restartFile

SwappedOut(entries) == save_restart_state(<<>>)

\* process_deferred_restarts(mode), up to the start of its batch; callers:
\* the frames waiting for the batch when the queue is not empty
ProcessDeferred(mode, callers) ==
    LET restart_entries == load_restart_state
    IN  /\ restart_entries # <<>>
        /\ restartFile' = SwappedOut(restart_entries)
        /\ lastSwap' = IF callers = <<>>
                       THEN [called |-> TRUE,
                             apps |-> {restart_entries[i].app :
                                          i \in 1..Len(restart_entries)}]
                       ELSE lastSwap
        /\ BeginOp(DeferredOp(mode), "deferred")
        /\ stack' = callers \o <<"process_deferred_restarts">>

process_deferred_restarts ==
    /\ pc = "idle"
    /\ \E mode \in RestartModes :
          IF load_restart_state = <<>>
          THEN /\ Finished("process_deferred_restarts", TRUE)
               /\ UNCHANGED <<restartFile, raised, lastSwap>>
          ELSE IF RestartFileMalformed
          THEN /\ Raised("process_deferred_restarts")
               /\ UNCHANGED lastSwap
          ELSE /\ ProcessDeferred(mode, <<>>)
               /\ UNCHANGED <<success, raised>>
    /\ UNCHANGED <<loginVars, cmdLog, lastAdd, lastAssert, lastTeardown, lastCommand>>
    /\ UNCHANGED <<statsVars, nonStatsVars, lastParse, concVars>>
    /\ UNCHANGED <<restartMode, cf_logged_in, initialized, test>>

\* the batch of process_deferred_restarts has returned: its result is the
\* result of process_deferred_restarts
process_deferred_restarts_returns ==
    /\ pc = "done"
    /\ stack # <<>>
    /\ stack[Len(stack)] = "process_deferred_restarts"
    /\ stack' = SubSeq(stack, 1, Len(stack) - 1)
    /\ op' = "process_deferred_restarts"
    /\ pc' = IF Len(stack) = 1 THEN "done" ELSE "single"
    /\ app_statuses' = NoStatuses
    /\ lastSwap' = NoCall
    /\ UNCHANGED <<origin, workers, success, lastProbe>>
    /\ UNCHANGED <<loginVars, cmdLog, lastAdd, sessionVars>>
    /\ UNCHANGED <<lastAssert, raised, lastTeardown, lastCommand, statsVars, nonStatsVars,
                   lastParse, concVars>>

\* has_deferred_restarts(), called on its own: its result is in success
query_has_deferred_restarts ==
    /\ pc = "idle"
    /\ Finished("has_deferred_restarts", has_deferred_restarts)
    /\ UNCHANGED <<loginVars, cmdLog, lastAdd, moreVars, sessionVars>>

\* get_deferred_restart_apps(): set(entry["app"] for entry in restart_entries)
get_deferred_restart_apps ==
    /\ pc = "idle"
    /\ IF RestartFileMalformed
       THEN Raised("get_deferred_restart_apps")
       ELSE /\ Finished("get_deferred_restart_apps", TRUE)
            /\ UNCHANGED <<restartFile, raised>>
    /\ UNCHANGED <<loginVars, cmdLog, lastAdd, lastAssert, lastTeardown, lastCommand, auxVars>>
    /\ UNCHANGED <<restartMode, cf_logged_in, initialized, test>>

-----------------------------------------------------------------------------
(* State files written by something else than the coordinator *)

\* the login-state file holds text that is no JSON, a JSON object without
\* logged_in, or a JSON list
CorruptLoginFile ==
    /\ pc = "idle"
    /\ \E shape \in LoginFileShapes \ {"state"} :
          loginFile' = [present |-> TRUE, shape |-> shape, state |-> DefaultLoginState]
    /\ lastLogin' = NoCall
    /\ prevLogin' = NoCall
    /\ UNCHANGED <<now, ticks, curConfig, cfTarget, cmdLog>>
    /\ UNCHANGED <<batchVars, sessionVars, lastAdd, moreVars>>

\* the restart-state file holds text that is no JSON, a JSON list, or a
\* restart_entries list with an entry that has no key app
CorruptRestartFile ==
    /\ pc = "idle"
    /\ \/ \E shape \in {"invalid", "list"} :
             restartFile' = [present |-> TRUE, shape |-> shape, entries |-> <<>>]
       \/ \E c \in TestClasses :
             restartFile' = [present |-> TRUE, shape |-> "no_app",
                             entries |-> <<[test_class |-> c, reason |-> "no_restart=True"]>>]
    /\ UNCHANGED <<loginVars, batchVars, cmdLog, lastAdd, moreVars>>
    /\ UNCHANGED <<restartMode, cf_logged_in, initialized, test>>

-----------------------------------------------------------------------------
(* Direct calls of the batch operations *)

\* a direct call of a parallel operation
CallParallel ==
    /\ pc = "idle"
    /\ \E o \in ParOps : BeginOp(o, "direct")
    /\ UNCHANGED <<stack, success, cmdLog>>
    /\ UNCHANGED otherVars

CallBatch ==
    /\ pc = "idle"
    /\ \E o \in BatchOps \cup {"check_all_apps_status"} : BeginOp(o, "direct")
    /\ UNCHANGED <<stack, success, cmdLog>>
    /\ UNCHANGED otherVars

\* the operation returns to a caller outside the coordinator
Return ==
    /\ pc = "done"
    /\ stack = <<>>
    /\ pc' = "idle"
    /\ op' = "none"
    /\ origin' = "none"
    /\ cmdLog' = <<>>
    /\ app_statuses' = NoStatuses
    /\ workers' = NoWorkers
    /\ success' = TRUE
    /\ lastProbe' = NoProbe
    /\ test' = NoTest
    /\ lastAdd' = NoCall
    /\ lastAssert' = NoCall
    /\ lastTeardown' = NoCall
    /\ lastCommand' = NoCall
    /\ raised' = FALSE
    /\ UNCHANGED <<stack, restartFile, restartMode, cf_logged_in, initialized>>
    /\ lastSwap' = NoCall
    /\ lastParse' = NoCall
    /\ UNCHANGED <<loginVars, statsVars, nonStatsVars, concVars>>

-----------------------------------------------------------------------------
(* Command statistics: GlobalCFCommandStats, one instance per process, *)
(* persisted in cf_stats_pytest_<user>.json                            *)

\* the commands whose execution is recorded
StatCommands == {"apps", "restart"}

\* the entry appended for a command (duration left out)
StatEntry(c, ok) == [command |-> c, success |-> ok, timestamp |-> now]

StatsFileShapes == {"absent", "stats", "malformed"}

NoStatsFile == [shape |-> "absent", stats |-> <<>>]

load_stats_from_file_KeepsMemory(file, mem) == mem

\* _load_stats_from_file: the list of the file; the empty list when the
\* file cannot be parsed; the list in memory stays when there is no file
load_stats_from_file(file, mem) ==
    IF file.shape = "absent" THEN mem
    ELSE IF file.shape = "stats" THEN file.stats
    ELSE <<>>

\* _save_stats_to_file
save_stats_to_file(mem) == [shape |-> "stats", stats |-> mem]

\* add_command_stat: <<file, list in memory>> after the call
add_command_stat(file, mem, enabled, entry) ==
    IF ~enabled
    THEN <<file, mem>>
    ELSE LET stats == Append(load_stats_from_file(file, mem), entry)
         IN  <<save_stats_to_file(stats), stats>>

\* add_command_stat for the commands cmds, in order
RECURSIVE add_command_stats(_, _, _, _)
add_command_stats(file, mem, enabled, cmds) ==
    IF cmds = <<>>
    THEN <<file, mem>>
    ELSE LET r == add_command_stat(file, mem, enabled,
                                   StatEntry(cmds[1].c, cmds[1].ok))
         IN  add_command_stats(r[1], r[2], enabled, Tail(cmds))

StatCall(enabled, entry, before, after) ==
    [called |-> TRUE, enabled |-> enabled, entry |-> entry,
     before |-> before, after |-> after]

\* _log_cf_command_stats after a command has been executed
log_cf_command_stats ==
    /\ pc = "idle"
    /\ Len(cf_command_stats) < MaxStats
    /\ Len(stats_file.stats) < MaxStats
    /\ \E c \in StatCommands, ok \in BOOLEAN :
          LET r == add_command_stat(stats_file, cf_command_stats, stats_enabled,
                                    StatEntry(c, ok))
          IN  /\ stats_file' = r[1]
              /\ cf_command_stats' = r[2]
              /\ lastStat' = StatCall(stats_enabled, StatEntry(c, ok), stats_file, r[1])
    /\ UNCHANGED <<stats_enabled, cls_stats_file>>
    /\ UNCHANGED <<loginVars, batchVars, sessionVars, cmdLog, lastAdd,
                   lastAssert, raised, lastTeardown, lastCommand, nonStatsVars,
                   lastSwap, lastParse, concVars>>

\* get_stats() and has_stats()
get_stats ==
    /\ pc = "idle"
    /\ cf_command_stats' = load_stats_from_file(stats_file, cf_command_stats)
    /\ lastStat' = NoCall
    /\ UNCHANGED <<stats_file, stats_enabled, cls_stats_file>>
    /\ UNCHANGED <<loginVars, batchVars, sessionVars, cmdLog, lastAdd,
                   lastAssert, raised, lastTeardown, lastCommand, nonStatsVars,
                   lastSwap, lastParse, concVars>>

\* clear_stats()
clear_stats ==
    /\ pc = "idle"
    /\ cf_command_stats' = <<>>
    /\ stats_file' = save_stats_to_file(<<>>)
    /\ lastStat' = NoCall
    /\ UNCHANGED <<stats_enabled, cls_stats_file>>
    /\ UNCHANGED <<loginVars, batchVars, sessionVars, cmdLog, lastAdd,
                   lastAssert, raised, lastTeardown, lastCommand, nonStatsVars,
                   lastSwap, lastParse, concVars>>

\* cleanup_temp_files: <<file, class attribute>> after the call
CleanedUp(file, cls) ==
    IF cls /\ file.shape # "absent" THEN <<NoStatsFile, FALSE>> ELSE <<file, cls>>

\* GlobalCFCommandStats.cleanup_temp_files()
cleanup_temp_files ==
    /\ pc = "idle"
    /\ stats_file' = CleanedUp(stats_file, cls_stats_file)[1]
    /\ cls_stats_file' = CleanedUp(stats_file, cls_stats_file)[2]
    /\ lastStat' = NoCall
    /\ UNCHANGED <<cf_command_stats, stats_enabled>>
    /\ UNCHANGED <<loginVars, batchVars, sessionVars, cmdLog, lastAdd,
                   lastAssert, raised, lastTeardown, lastCommand, nonStatsVars,
                   lastSwap, lastParse, concVars>>

\* teardown_session, the statistics part: with the flag on has_stats() and
\* cleanup_temp_files(), then the recording of the commands of delete_apps;
\* <<file, list in memory, class attribute>> after teardown
TeardownStats(cmds) ==
    LET mem     == IF stats_enabled
                   THEN load_stats_from_file(stats_file, cf_command_stats)
                   ELSE cf_command_stats
        cleaned == IF stats_enabled
                   THEN CleanedUp(stats_file, cls_stats_file)
                   ELSE <<stats_file, cls_stats_file>>
        r       == add_command_stats(cleaned[1], mem, stats_enabled, cmds)
    IN  <<r[1], r[2], cleaned[2]>>

\* the environment variable CF_COMMAND_STATS is set or unset
SetStatsEnabled ==
    /\ pc = "idle"
    /\ stats_enabled' = ~stats_enabled
    /\ lastStat' = NoCall
    /\ UNCHANGED <<stats_file, cf_command_stats, cls_stats_file>>
    /\ UNCHANGED <<loginVars, batchVars, sessionVars, cmdLog, lastAdd,
                   lastAssert, raised, lastTeardown, lastCommand, nonStatsVars,
                   lastSwap, lastParse, concVars>>

\* the statistics file is overwritten with something that is not the JSON
\* object the tracker writes
CorruptStatsFile ==
    /\ pc = "idle"
    /\ stats_file.shape = "stats"
    /\ stats_file' = [shape |-> "malformed", stats |-> <<>>]
    /\ lastStat' = NoCall
    /\ UNCHANGED <<cf_command_stats, stats_enabled, cls_stats_file>>
    /\ UNCHANGED <<loginVars, batchVars, sessionVars, cmdLog, lastAdd,
                   lastAssert, raised, lastTeardown, lastCommand, nonStatsVars,
                   lastSwap, lastParse, concVars>>

-----------------------------------------------------------------------------
(* Command statistics under concurrency: threads of one process share the *)
(* tracker and its lock, every process has a tracker and a lock of its    *)
(* own, all of them write the one file                                    *)

Threads == 1..NumThreads

Processes == 1..NumThreads

NoThread == 0

\* the command a thread records
ThreadCommand(t) == <<"apps", "restart", "app", "start">>[t]

ThreadEntry(t) == StatEntry(ThreadCommand(t), TRUE)

\* everything but the statistics and the threads
exceptStats ==
    <<loginVars, batchVars, sessionVars, cmdLog, lastAdd, lastAssert, raised,
      lastTeardown, lastCommand, nonStatsVars, lastSwap, lastParse, mgrVars>>

\* a thread calls add_command_stat; with the flag off the call returns at
\* once. sameProcess: the threads are workers of one process, else every
\* thread is the main thread of a process of its own
add_command_stat_enter(sameProcess) ==
    /\ pc = "idle"
    /\ \E t \in Threads :
          /\ tpc[t] = "idle"
          /\ tproc' = [tproc EXCEPT ![t] = IF sameProcess THEN 1 ELSE t]
          /\ tpc' = [tpc EXCEPT ![t] = IF stats_enabled THEN "acquire" ELSE "skipped"]
    /\ UNCHANGED <<statsVars, stats_lock, proc_stats, recorded, overlapped>>
    /\ UNCHANGED exceptStats

\* with self._lock:
add_command_stat_acquire ==
    /\ \E t \in Threads :
          /\ tpc[t] = "acquire"
          /\ stats_lock[tproc[t]] = NoThread
          /\ stats_lock' = [stats_lock EXCEPT ![tproc[t]] = t]
          /\ tpc' = [tpc EXCEPT ![t] = "load"]
          /\ overlapped' = (overlapped \/ \E p \in Processes : stats_lock[p] # NoThread)
    /\ UNCHANGED <<statsVars, tproc, proc_stats, recorded>>
    /\ UNCHANGED exceptStats

\* self._load_stats_from_file()
add_command_stat_load ==
    /\ \E t \in Threads :
          /\ tpc[t] = "load"
          /\ proc_stats' = [proc_stats EXCEPT ![tproc[t]] =
                               load_stats_from_file(stats_file, proc_stats[tproc[t]])]
          /\ tpc' = [tpc EXCEPT ![t] = "append"]
    /\ UNCHANGED <<statsVars, tproc, stats_lock, recorded, overlapped>>
    /\ UNCHANGED exceptStats

\* self.cf_command_stats.append(...)
add_command_stat_append ==
    /\ \E t \in Threads :
          /\ tpc[t] = "append"
          /\ proc_stats' = [proc_stats EXCEPT ![tproc[t]] =
                               Append(proc_stats[tproc[t]], ThreadEntry(t))]
          /\ tpc' = [tpc EXCEPT ![t] = "save"]
    /\ UNCHANGED <<statsVars, tproc, stats_lock, recorded, overlapped>>
    /\ UNCHANGED exceptStats

\* self._save_stats_to_file(), the lock is released and the call returns
add_command_stat_save ==
    /\ \E t \in Threads :
          /\ tpc[t] = "save"
          /\ stats_file' = save_stats_to_file(proc_stats[tproc[t]])
          /\ stats_lock' = [stats_lock EXCEPT ![tproc[t]] = NoThread]
          /\ recorded' = recorded \cup {ThreadEntry(t)}
          /\ tpc' = [tpc EXCEPT ![t] = "returned"]
    /\ UNCHANGED <<cf_command_stats, stats_enabled, cls_stats_file, lastStat>>
    /\ UNCHANGED <<tproc, proc_stats, overlapped>>
    /\ UNCHANGED exceptStats

\* get_stats(), has_stats() or print_summary() called by another thread of
\* the process: _load_stats_from_file() without the lock
reader_load_stats_from_file ==
    /\ proc_stats' = [proc_stats EXCEPT ![1] =
                         load_stats_from_file(stats_file, proc_stats[1])]
    /\ proc_stats' # proc_stats
    /\ UNCHANGED <<statsVars, tpc, tproc, stats_lock, recorded, overlapped>>
    /\ UNCHANGED exceptStats

-----------------------------------------------------------------------------
(* The manager under concurrency: threads of one process calling the  *)
(* operations that take CFManager._lock; an external command is taken *)
(* by its outcome                                                     *)

\* the apps the threads defer
DeferredApps == {a \in Apps : a <= 2}

ManagerCall(fn, a, c, phase) ==
    [called |-> TRUE, fn |-> fn, app |-> a, test_class |-> c, phase |-> phase]

QueueCalls ==
    {ManagerCall("add_deferred_restart_app", a, c, "body") :
        a \in DeferredApps, c \in TestClasses}
    \cup {ManagerCall("clear_deferred_restart_apps", 0, "none", "body"),
          ManagerCall("process_deferred_restarts", 0, "none", "body")}

LockCalls ==
    {ManagerCall("add_deferred_restart_app", 1, "ClassA", "body"),
     ManagerCall("clear_deferred_restart_apps", 0, "none", "body"),
     ManagerCall("process_deferred_restarts", 0, "none", "body"),
     ManagerCall("login", 0, "none", "check"),
     ManagerCall("reset_global_login_state", 0, "none", "body")}

\* everything the threads of the manager leave alone
exceptManager ==
    <<now, ticks, curConfig, lastLogin, prevLogin, batchVars, restartMode,
      cf_logged_in, initialized, test, cmdLog, lastAdd, lastAssert, raised,
      lastTeardown, lastCommand, statsVars, nonStatsVars, lastSwap, lastParse,
      tproc, stats_lock, proc_stats, recorded, overlapped>>

\* a thread calls an operation of the manager; the threads are numbered in
\* the order of their calls
manager_call(calls) ==
    /\ pc = "idle"
    /\ \E t \in Threads, call \in calls :
          /\ tpc[t] = "idle"
          /\ \A u \in Threads : u < t => tpc[u] # "idle"
          /\ tcall' = [tcall EXCEPT ![t] = call]
          /\ tpc' = [tpc EXCEPT ![t] = "acquire"]
    /\ UNCHANGED <<loginFile, cfTarget, restartFile, mgr_lock, collected, appended>>
    /\ UNCHANGED exceptManager

\* with self._lock: the thread waits until the lock is free
manager_acquire ==
    /\ \E t \in Threads :
          /\ tpc[t] = "acquire"
          /\ mgr_lock = NoThread
          /\ mgr_lock' = t
          /\ tpc' = [tpc EXCEPT ![t] = "locked"]
    /\ UNCHANGED <<loginFile, cfTarget, restartFile, tcall, collected, appended>>
    /\ UNCHANGED exceptManager

\* the lock after the with block of a call that goes on to an external
\* command: the block ends before the command is run
AfterBlock_KeepsLock(t) == t

AfterBlock(t) == NoThread

\* the body of the with block of thread t, up to the end of the block
manager_block(t) ==
    LET call == tcall[t]
        entries == load_restart_state
    IN  CASE call.fn = "add_deferred_restart_app" ->
               /\ restartFile' =
                     IF ExistingEntry(entries, call.app, call.test_class)
                     THEN restartFile
                     ELSE save_restart_state(
                              Append(entries, Entry(call.app, call.test_class,
                                                    "no_restart=True", now)))
               /\ appended' =
                     IF ExistingEntry(entries, call.app, call.test_class)
                     THEN appended ELSE appended \cup {t}
               /\ mgr_lock' = NoThread
               /\ tpc' = [tpc EXCEPT ![t] = "returned"]
               /\ UNCHANGED <<loginFile, tcall, collected>>
          [] call.fn = "clear_deferred_restart_apps" ->
               /\ restartFile' =
                     IF entries # <<>> THEN save_restart_state(<<>>) ELSE restartFile
               /\ collected' = [collected EXCEPT ![t] = entries]
               /\ mgr_lock' = NoThread
               /\ tpc' = [tpc EXCEPT ![t] = "returned"]
               /\ UNCHANGED <<loginFile, tcall, appended>>
          [] call.fn = "process_deferred_restarts" ->
               /\ restartFile' =
                     IF entries # <<>> THEN SwappedOut(entries) ELSE restartFile
               /\ collected' = [collected EXCEPT ![t] = entries]
               /\ mgr_lock' = IF entries # <<>> THEN AfterBlock(t) ELSE NoThread
               /\ tpc' = [tpc EXCEPT ![t] =
                             IF entries # <<>> THEN "external" ELSE "returned"]
               /\ UNCHANGED <<loginFile, tcall, appended>>
          [] call.fn = "reset_global_login_state" ->
               /\ loginFile' = save_login_state(DefaultLoginState)
               /\ mgr_lock' = NoThread
               /\ tpc' = [tpc EXCEPT ![t] = "returned"]
               /\ UNCHANGED <<restartFile, tcall, collected, appended>>
          [] call.fn = "login" /\ call.phase = "check" ->
               IF LoginStateValid(load_login_state, curConfig, now)
               THEN /\ mgr_lock' = NoThread
                    /\ tpc' = [tpc EXCEPT ![t] = "returned"]
                    /\ UNCHANGED <<loginFile, restartFile, tcall, collected, appended>>
               ELSE /\ mgr_lock' = AfterBlock(t)
                    /\ tpc' = [tpc EXCEPT ![t] = "external"]
                    /\ tcall' = [tcall EXCEPT ![t].phase = "target"]
                    /\ UNCHANGED <<loginFile, restartFile, collected, appended>>
          [] call.fn = "login" /\ call.phase = "save" ->
               /\ loginFile' = save_login_state(NewLoginState(curConfig, now))
               /\ mgr_lock' = NoThread
               /\ tpc' = [tpc EXCEPT ![t] = "returned"]
               /\ UNCHANGED <<restartFile, tcall, collected, appended>>

\* a thread runs the block it holds the lock for
manager_locked ==
    /\ \E t \in Threads :
          /\ tpc[t] = "locked"
          /\ manager_block(t)
    /\ UNCHANGED cfTarget
    /\ UNCHANGED exceptManager

\* the external command of a thread returns or times out: the batch restart
\* of process_deferred_restarts, `cf target` and `cf login` of login()
manager_external ==
    /\ \E t \in Threads, ok \in BOOLEAN :
          /\ tpc[t] = "external"
          /\ CASE tcall[t].fn = "process_deferred_restarts" ->
                    /\ tpc' = [tpc EXCEPT ![t] = "returned"]
                    /\ ok
                    /\ UNCHANGED <<cfTarget, tcall>>
               [] tcall[t].fn = "login" /\ tcall[t].phase = "target" ->
                    /\ IF is_logged_in_correctly(check_current_cf_target(~ok), curConfig)
                       THEN /\ tpc' = [tpc EXCEPT ![t] = "acquire"]
                            /\ tcall' = [tcall EXCEPT ![t].phase = "save"]
                       ELSE /\ tpc' = tpc
                            /\ tcall' = [tcall EXCEPT ![t].phase = "auth"]
                    /\ UNCHANGED cfTarget
               [] tcall[t].fn = "login" /\ tcall[t].phase = "auth" ->
                    IF ok
                    THEN /\ tpc' = [tpc EXCEPT ![t] = "acquire"]
                         /\ tcall' = [tcall EXCEPT ![t].phase = "save"]
                         /\ cfTarget' = TargetOf(curConfig)
                    ELSE /\ tpc' = [tpc EXCEPT ![t] = "returned"]
                         /\ UNCHANGED <<cfTarget, tcall>>
    /\ UNCHANGED <<loginFile, restartFile, mgr_lock, collected, appended>>
    /\ UNCHANGED exceptManager

-----------------------------------------------------------------------------
(* Test session: session start, the test wrapper and the teardown hook *)

\* RESTART_APPS is set in the environment
SetRestartMode ==
    /\ pc = "idle"
    /\ \E m \in RestartModes \ {restartMode} : restartMode' = m
    /\ UNCHANGED <<loginVars, batchVars, cmdLog, lastAdd, moreVars>>
    /\ UNCHANGED <<restartFile, cf_logged_in, initialized, test>>

\* pytest_sessionstart, first half: setup_session() of a session that is not
\* initialized: login, deployment (deployed: whether a deployment command
\* was run) and start_apps_if_needed
setup_session ==
    /\ pc = "idle"
    /\ ~initialized
    /\ initialized' = TRUE
    /\ IF curConfig.username = "" \/ curConfig.password = "" \/ LoginFileMalformed
       THEN \* no credentials, or login() raised and the exception was caught
            /\ Finished("setup_session", TRUE)
            /\ UNCHANGED <<loginFile, cfTarget, cmdLog, cf_logged_in>>
       ELSE \E targetFailed \in BOOLEAN, authOk \in BOOLEAN,
               targetAfterFail \in {cfTarget, NoTarget}, deployed \in BOOLEAN :
               LET out == LoginOutcome(targetFailed, authOk, targetAfterFail)
               IN  /\ loginFile' = out[3]
                   /\ cfTarget' = out[4]
                   /\ cf_logged_in' = out[1]
                   /\ IF out[1]
                      THEN /\ cmdLog' = out[2] \o
                                 (IF deployed THEN <<Cmd("push", 0, TRUE, "setup")>>
                                  ELSE <<>>)
                           /\ BeginOp("start_apps_if_needed", "setup")
                           /\ stack' = <<"pytest_sessionstart">>
                           /\ UNCHANGED success
                      ELSE /\ cmdLog' = out[2]
                           /\ Finished("setup_session", TRUE)
    /\ UNCHANGED <<now, ticks, curConfig, lastLogin, prevLogin>>
    /\ UNCHANGED <<restartFile, restartMode, test, lastAdd, moreVars>>

\* _restart_all_apps_at_start: the batch operation of a restart mode
InitialOp(mode) ==
    CASE mode = "smart" -> "restart_apps_if_needed"
      [] mode = "smart_parallel" -> "restart_apps_if_needed_parallel"
      [] mode = "parallel" -> "restart_apps_parallel"
      [] mode = "always" -> "restart_apps"
      [] OTHER -> "restart_apps_if_needed"

\* pytest_sessionstart, second half, once setup_session has returned:
\* _restart_all_apps_at_start() unless --no-initial-restart is given; the
\* command log starts afresh
restart_all_apps_at_start ==
    /\ pc = "done"
    /\ stack = <<"pytest_sessionstart">>
    /\ stack' = <<>>
    /\ cmdLog' = <<>>
    /\ \E no_initial_restart \in BOOLEAN :
          IF ~no_initial_restart /\ cf_logged_in /\ restartMode # "never"
          THEN /\ BeginOp(InitialOp(restartMode), "initial")
               /\ UNCHANGED success
          ELSE /\ op' = "restart_all_apps_at_start"
               /\ success' = TRUE
               /\ pc' = "done"
               /\ UNCHANGED <<origin, app_statuses, workers, lastProbe>>
    /\ UNCHANGED <<loginVars, sessionVars, lastAdd, moreVars>>

\* teardown_session(): the queue is cleared without being processed and the
\* state files are removed; the next session starts uninitialized
\* teardown_session: the commands issued for the pending entries
TeardownRestarts_Processes(entries) ==
    [i \in 1..Len(entries) |-> Cmd("restart", entries[i].app, TRUE, "teardown")]

TeardownRestarts(entries) == <<>>

\* delete_apps: DELETE_APPS is true (and SKIP_DELETE is not), cf delete for
\* every configured app
teardown_session ==
    /\ pc = "idle"
    /\ initialized
    /\ IF RestartFileMalformed
       THEN \* clear_deferred_restart_apps() raised
            /\ Raised("teardown_session")
            /\ UNCHANGED <<loginFile, initialized, cf_logged_in, cmdLog, lastTeardown>>
            /\ UNCHANGED <<stats_file, cf_command_stats, cls_stats_file>>
       ELSE /\ \E delete_apps \in BOOLEAN, okApps \in SUBSET Apps :
                  cmdLog' = TeardownRestarts(load_restart_state) \o
                            (IF cf_logged_in /\ delete_apps
                             THEN RunEach(AppSeq, "delete", okApps, "teardown")
                             ELSE <<>>)
            /\ lastTeardown' = [called |-> TRUE, pending |-> load_restart_state]
            /\ stats_file' = TeardownStats(cmdLog')[1]
            /\ cf_command_stats' = TeardownStats(cmdLog')[2]
            /\ cls_stats_file' = TeardownStats(cmdLog')[3]
            /\ restartFile' = NoRestartFile
            /\ loginFile' = NoLoginFile
            /\ initialized' = FALSE
            /\ cf_logged_in' = FALSE
            /\ Finished("teardown_session", TRUE)
            /\ UNCHANGED raised
    /\ UNCHANGED <<now, ticks, curConfig, cfTarget, lastLogin, prevLogin>>
    /\ UNCHANGED <<lastAdd, lastAssert, lastCommand, restartMode, test>>
    /\ UNCHANGED <<stats_enabled, lastStat, nonStatsVars, lastSwap, lastParse, concVars>>

\* a test of the running session calls add_deferred_restart_app
test_defers_restart ==
    /\ initialized
    /\ add_deferred_restart_app

\* the wrapper of @test: whether the app is restarted after the test
ShouldRestart(no_restart, force_restart, passed) ==
    IF passed THEN force_restart \/ ~no_restart ELSE TRUE

Test(a, passed, no_restart, should_restart) ==
    [running |-> TRUE, app |-> a, passed |-> passed, no_restart |-> no_restart,
     should_restart |-> should_restart]

\* the wrapper of @test up to its finally block: the test body has run
RunTest ==
    /\ pc = "idle"
    /\ initialized
    /\ \E a \in Apps, no_restart \in BOOLEAN, force_restart \in BOOLEAN,
          passed \in BOOLEAN :
          test' = Test(a, passed, no_restart,
                       ShouldRestart(no_restart, force_restart, passed))
    /\ pc' = "after_test"
    /\ op' = "test"
    /\ UNCHANGED <<stack, origin, app_statuses, workers, success, lastProbe>>
    /\ UNCHANGED <<loginVars, cmdLog, lastAdd, moreVars>>
    /\ UNCHANGED <<restartFile, restartMode, cf_logged_in, initialized>>

\* the finally block of the wrapper, up to the restart of the test's own app
wrapper_finally ==
    /\ pc = "after_test"
    /\ IF ~test.should_restart \/ (has_deferred_restarts /\ RestartFileMalformed)
       THEN \* nothing is restarted, or process_deferred_restarts raised and
            \* the exception was caught after the restart of the app
            /\ pc' = "teardown"
            /\ UNCHANGED <<op, stack, origin, app_statuses, workers, lastProbe,
                           restartFile, lastSwap>>
       ELSE IF has_deferred_restarts
       THEN ProcessDeferred(restartMode, <<"wrapper">>)
       ELSE /\ pc' = "single"
            /\ UNCHANGED <<op, stack, origin, app_statuses, workers, lastProbe,
                           restartFile, lastSwap>>
    /\ UNCHANGED <<loginVars, cmdLog, lastAdd, success, restartMode, cf_logged_in, initialized, test>>
    /\ UNCHANGED <<lastAssert, raised, lastTeardown, lastCommand, statsVars, nonStatsVars,
                   lastParse, concVars>>

\* restart_single_app(app_name): <<return value, commands issued>>
restart_single_app(a, ok, by) == <<ok, <<Cmd("restart", a, ok, by)>>>>

\* restart_single_app_if_needed(app_name), match: what the first line of the
\* `cf apps` report holding the app's name says
restart_single_app_if_needed(a, listFailed, match, ok, by) ==
    LET acmd == Cmd("apps", 0, ~listFailed, by)
    IN  IF listFailed THEN <<FALSE, <<acmd>>>>
        ELSE IF match = "started" THEN <<TRUE, <<acmd>>>>
        ELSE IF match = "none" THEN <<FALSE, <<acmd>>>>
        ELSE <<ok, <<acmd>> \o restart_single_app(a, ok, by)[2]>>

\* the finally block of the wrapper: the restart of the test's own app
wrapper_restart ==
    /\ pc = "single"
    /\ \E listFailed \in BOOLEAN, match \in {"none", "started", "not_started"},
          ok \in BOOLEAN :
          LET res == IF restartMode \in {"smart_parallel", "smart"}
                     THEN restart_single_app_if_needed(test.app, listFailed, match,
                                                       ok, "after_test")
                     ELSE IF restartMode \in {"parallel", "always"}
                     THEN restart_single_app(test.app, ok, "after_test")
                     ELSE restart_single_app_if_needed(test.app, listFailed, match,
                                                       ok, "after_test")
          IN  cmdLog' = cmdLog \o res[2]
    /\ pc' = "teardown"
    /\ op' = "test"
    /\ stack' = <<>>
    /\ UNCHANGED <<origin, app_statuses, workers, success, lastProbe>>
    /\ UNCHANGED <<loginVars, sessionVars, lastAdd, moreVars>>

\* pytest_runtest_teardown: the test failed in its call phase and the
\* session is logged in
FailureRestartDue_HonoursNoRestart(t, logged_in) ==
    ~t.passed /\ logged_in /\ ~t.no_restart

FailureRestartDue(t, logged_in) == ~t.passed /\ logged_in

pytest_runtest_teardown ==
    /\ pc = "teardown"
    /\ IF FailureRestartDue(test, cf_logged_in)
       THEN \E ok \in BOOLEAN :
               cmdLog' = cmdLog \o restart_single_app(test.app, ok, "failure")[2]
       ELSE UNCHANGED cmdLog
    /\ pc' = "done"
    /\ op' = "test"
    /\ UNCHANGED <<stack, origin, app_statuses, workers, success, lastProbe>>
    /\ UNCHANGED <<loginVars, sessionVars, lastAdd, moreVars>>

-----------------------------------------------------------------------------
(* SIGINT: the handler chain of the pytest process (test/conftest.py) and *)
(* the handler of the launcher (test/test.py)                             *)

Running == [pytest |-> "running", launcher |-> "running"]

InterruptCall(by, count, teardown, outcome) ==
    [called |-> TRUE, by |-> by, count |-> count, remote_cleanup |-> TRUE,
     teardown |-> teardown, outcome |-> outcome]

\* how the second-interrupt branch of handle_interrupt ends: os has no
\* attribute exit, the call raises AttributeError out of the handler
ForcedExit == "AttributeError"

\* handle_interrupt calls test_session.teardown_session() on the second
\* interrupt
HandlerTeardown(count) == count >= 2

\* _sigint_handler: _cleanup_remote_files_on_interrupt(), then
\* handle_interrupt; the first interrupt raises KeyboardInterrupt in the main
\* thread, every later one runs teardown_session and then the forced exit.
\* teardown_session leaves _initialized and _cf_logged_in as they are.
sigint_handler ==
    /\ processes.pytest = "running"
    /\ interrupt_count < MaxInterrupts
    /\ interrupt_count' = interrupt_count + 1
    /\ LET count == interrupt_count + 1
           torn  == HandlerTeardown(count) /\ ~RestartFileMalformed
       IN  /\ lastInterrupt' =
                 InterruptCall("pytest", count, HandlerTeardown(count),
                               IF count = 1 THEN "KeyboardInterrupt" ELSE ForcedExit)
           /\ processes' = IF count >= 2 /\ ForcedExit = "exit"
                       THEN [processes EXCEPT !.pytest = "terminated"]
                       ELSE processes
           /\ IF torn
              THEN /\ \E delete_apps \in BOOLEAN, okApps \in SUBSET Apps :
                         cmdLog' = IF cf_logged_in /\ delete_apps
                                   THEN RunEach(AppSeq, "delete", okApps, "teardown")
                                   ELSE <<>>
                   /\ stats_file' = TeardownStats(cmdLog')[1]
                   /\ cf_command_stats' = TeardownStats(cmdLog')[2]
                   /\ cls_stats_file' = TeardownStats(cmdLog')[3]
                   /\ restartFile' = NoRestartFile
                   /\ loginFile' = NoLoginFile
              ELSE UNCHANGED <<cmdLog, stats_file, cf_command_stats, cls_stats_file,
                               restartFile, loginFile>>
    /\ UNCHANGED <<now, ticks, curConfig, cfTarget, lastLogin, prevLogin>>
    /\ UNCHANGED <<batchVars, restartMode, cf_logged_in, initialized, test>>
    /\ UNCHANGED <<lastAdd, lastAssert, raised, lastTeardown, lastCommand>>
    /\ UNCHANGED <<stats_enabled, lastStat, launcher_interrupt_count, schedVars, cacheVars, lastSwap, lastParse, concVars>>

\* handle_keyboard_interrupt of the launcher: the first interrupt prints the
\* failures (the module-level _active_command is never assigned, run_command
\* assigns a local of that name); the second terminates the child processes
\* and leaves with os._exit(130)
handle_keyboard_interrupt ==
    /\ processes.launcher = "running"
    /\ launcher_interrupt_count < MaxInterrupts
    /\ launcher_interrupt_count' = launcher_interrupt_count + 1
    /\ LET count == launcher_interrupt_count + 1
       IN  /\ lastInterrupt' =
                 [called |-> TRUE, by |-> "launcher", count |-> count,
                  remote_cleanup |-> FALSE, teardown |-> FALSE,
                  outcome |-> IF count = 2 THEN "exit" ELSE "return"]
           /\ processes' = IF count = 2
                       THEN [pytest |-> "terminated", launcher |-> "terminated"]
                       ELSE processes
    /\ UNCHANGED <<loginVars, batchVars, sessionVars, cmdLog, lastAdd>>
    /\ UNCHANGED <<lastAssert, raised, lastTeardown, lastCommand>>
    /\ UNCHANGED <<statsVars, interrupt_count, schedVars, cacheVars, lastSwap, lastParse, concVars>>

-----------------------------------------------------------------------------
(* Parallel test execution: pytest_xdist_make_scheduler, the scopes of *)
(* AppGroupedScheduling and their assignment to workers                *)

XWorkers == 1..NumWorkers

\* node ids are sequences of characters; ":" stands for the separator "::"
TestClassNames == {"C", "D"}
TestMethodNames == {"m"}

\* the ids of the app parameter
ParamIds == {<<"a">>, <<"b">>, <<"a", "b">>}

\* the node id of a test item: file.py::Class::method[app], the id of the
\* parameter being the app name (ids=lambda app: f"{app}")
NodeId(cls, method, app) == <<cls, ":", method, "[">> \o app \o <<"]">>

\* the collected items: the method of every class, for every app
Items == [cls : TestClassNames, method : TestMethodNames, app : ParamIds]

NodeIdOf(item) == NodeId(item.cls, item.method, item.app)

Contains(str, ch) == \E i \in 1..Len(str) : str[i] = ch

\* str.split(ch)[-1]: what follows the last ch
AfterLast(str, ch) ==
    LET at == {i \in 1..Len(str) : str[i] = ch}
        last == CHOOSE i \in at : \A j \in at : j <= i
    IN  IF at = {} THEN str ELSE SubSeq(str, last + 1, Len(str))

\* str.rsplit(ch, 1)[0]: what precedes the last ch
BeforeLast(str, ch) ==
    LET at == {i \in 1..Len(str) : str[i] = ch}
        last == CHOOSE i \in at : \A j \in at : j <= i
    IN  IF at = {} THEN str ELSE SubSeq(str, 1, last - 1)

\* str.rstrip(ch)
RECURSIVE RStrip(_, _)
RStrip(str, ch) ==
    IF str # <<>> /\ str[Len(str)] = ch
    THEN RStrip(SubSeq(str, 1, Len(str) - 1), ch)
    ELSE str

\* LoadScopeScheduling._split_scope: the node id up to its last "::"
split_scope_Default(nodeid) == BeforeLast(nodeid, ":")

\* AppGroupedScheduling._split_scope
split_scope(nodeid) ==
    IF Contains(nodeid, "[") /\ Contains(nodeid, "]")
    THEN RStrip(AfterLast(nodeid, "["), "]")
    ELSE BeforeLast(nodeid, ":")

ScopeOf(item) == split_scope(NodeIdOf(item))

Scopes == {ScopeOf(item) : item \in Items}

NoWorkerYet == 0

NoItem == [cls |-> "none", method |-> "none", app |-> <<>>]

\* the scheduler hands a pending scope, with all its items, to one worker
assign_scope ==
    /\ \E scope \in Scopes, w \in XWorkers :
          /\ \A item \in Items : ScopeOf(item) = scope => assigned[item] = NoWorkerYet
          /\ assigned' = [item \in Items |->
                            IF ScopeOf(item) = scope THEN w ELSE assigned[item]]
    /\ UNCHANGED <<running, finished>>
    /\ UNCHANGED <<loginVars, batchVars, sessionVars, cmdLog, lastAdd>>
    /\ UNCHANGED <<lastAssert, raised, lastTeardown, lastCommand>>
    /\ UNCHANGED <<statsVars, intVars, cacheVars, lastSwap, lastParse, concVars>>

\* a worker that runs nothing starts one of the items assigned to it
run_item ==
    /\ \E w \in XWorkers, item \in Items :
          /\ running[w] = NoItem
          /\ assigned[item] = w
          /\ item \notin finished
          /\ running' = [running EXCEPT ![w] = item]
    /\ UNCHANGED <<assigned, finished>>
    /\ UNCHANGED <<loginVars, batchVars, sessionVars, cmdLog, lastAdd>>
    /\ UNCHANGED <<lastAssert, raised, lastTeardown, lastCommand>>
    /\ UNCHANGED <<statsVars, intVars, cacheVars, lastSwap, lastParse, concVars>>

\* the item a worker runs ends
finish_item ==
    /\ \E w \in XWorkers :
          /\ running[w] # NoItem
          /\ finished' = finished \cup {running[w]}
          /\ running' = [running EXCEPT ![w] = NoItem]
    /\ UNCHANGED assigned
    /\ UNCHANGED <<loginVars, batchVars, sessionVars, cmdLog, lastAdd>>
    /\ UNCHANGED <<lastAssert, raised, lastTeardown, lastCommand>>
    /\ UNCHANGED <<statsVars, intVars, cacheVars, lastSwap, lastParse, concVars>>

-----------------------------------------------------------------------------
(* The status cache: check_app_status(use_cache=True) and the two writers *)
(* of _app_status_cache and _cache_timestamp.  No operation of the        *)
(* coordinator reads the cache: check_all_apps_status and the batch       *)
(* operations probe with use_cache=False, so the cache is kept in the     *)
(* actions of this section and left out of the stepwise probe above.      *)

\* clock advances between two calls, in seconds
CacheTickSteps == {10, 25}

\* _cache_timestamp is 0 on a clock that reads seconds since the epoch: the
\* cache is stale at its first use
NeverCached == 0 - (CacheMaxAge + 1)

NoCacheEntry == [present |-> FALSE, status |-> "unknown", probed_at |-> 0]

CacheEntry(status, t) == [present |-> TRUE, status |-> status, probed_at |-> t]

EmptyCache == [a \in Apps |-> NoCacheEntry]

\* _clear_app_cache_if_stale: <<cache, timestamp>> after the call at time t
clear_app_cache_if_stale(cache, ts, t) ==
    IF t - ts > CacheMaxAge THEN <<EmptyCache, t>> ELSE <<cache, ts>>

\* the answers of `cf app` and the lines of `cf apps` drawn in this section
CacheOutputs ==
    {[failed |-> TRUE, words |-> {}], [failed |-> FALSE, words |-> {"running"}]}

CacheLines == {NoLine, Line(3, "stopped", PZeroOne)}

StatusCall(a, hit, status, probed_at) ==
    [called |-> TRUE, app |-> a, hit |-> hit, status |-> status,
     probed_at |-> probed_at, at |-> now]

\* check_app_status(app_name, use_cache=True)
check_app_status_cached ==
    /\ pc = "idle"
    /\ \E a \in Apps, out \in CacheOutputs :
          LET c == clear_app_cache_if_stale(app_status_cache, cache_timestamp, now)
          IN  /\ cache_timestamp' = c[2]
              /\ IF c[1][a].present
                 THEN /\ out = [failed |-> TRUE, words |-> {}]
                      /\ app_status_cache' = c[1]
                      /\ lastStatus' = StatusCall(a, TRUE, c[1][a].status,
                                                  c[1][a].probed_at)
                 ELSE /\ app_status_cache' =
                            [c[1] EXCEPT ![a] = CacheEntry(check_app_status(out), now)]
                      /\ lastStatus' = StatusCall(a, FALSE, check_app_status(out), now)
    /\ UNCHANGED <<loginVars, batchVars, sessionVars, cmdLog, lastAdd>>
    /\ UNCHANGED <<lastAssert, raised, lastTeardown, lastCommand>>
    /\ UNCHANGED <<statsVars, intVars, schedVars, lastSwap, lastParse, concVars>>

\* check_all_apps_status(), the whole call: when `cf apps` succeeded the
\* timestamp is set and the statuses of the parsed lines are written over
\* the cache; the apps probed one by one (use_cache=False) are not cached
check_all_apps_status_cached ==
    /\ pc = "idle"
    /\ \E listFailed \in BOOLEAN, lines \in [Apps -> CacheLines] :
          /\ listFailed => \A a \in Apps : lines[a] = NoLine
          /\ IF listFailed
             THEN UNCHANGED <<app_status_cache, cache_timestamp>>
             ELSE /\ cache_timestamp' = now
                  /\ app_status_cache' =
                        [a \in Apps |->
                            IF a \in ProbedSingly(listFailed, lines)
                            THEN app_status_cache[a]
                            ELSE CacheEntry(LineStatus(lines[a]), now)]
    /\ lastStatus' = NoCall
    /\ UNCHANGED <<loginVars, batchVars, sessionVars, cmdLog, lastAdd>>
    /\ UNCHANGED <<lastAssert, raised, lastTeardown, lastCommand>>
    /\ UNCHANGED <<statsVars, intVars, schedVars, lastSwap, lastParse, concVars>>

\* time passes between two calls
CacheTick ==
    /\ pc = "idle"
    /\ ticks < MaxTicks
    /\ \E d \in CacheTickSteps : now' = now + d
    /\ ticks' = ticks + 1
    /\ lastStatus' = NoCall
    /\ UNCHANGED <<curConfig, loginFile, cfTarget, lastLogin, prevLogin>>
    /\ UNCHANGED <<batchVars, sessionVars, cmdLog, lastAdd>>
    /\ UNCHANGED <<lastAssert, raised, lastTeardown, lastCommand>>
    /\ UNCHANGED <<statsVars, intVars, schedVars, lastSwap, lastParse, concVars>>
    /\ UNCHANGED <<app_status_cache, cache_timestamp>>

-----------------------------------------------------------------------------
(* The `cf apps` listing as a sequence of lines, with the lines of apps *)
(* that are not configured                                              *)

\* the first column of a line: the name of configured app base (own), or of
\* another app whose line holds the name of base as a substring, in its
\* name or in its route; base 0: a line that holds no configured name
ListedNames ==
    {[base |-> a, own |-> o] : a \in Apps, o \in BOOLEAN}
    \cup {[base |-> 0, own |-> FALSE]}

RowLines ==
    {Line(3, "started", POneOne), Line(3, "started", PZeroOne),
     Line(3, "stopped", PZeroOne), Line(3, "other", POneOne)}

Rows == [name : ListedNames, line : RowLines]

Listings == UNION {[1..n -> Rows] : n \in 0..MaxRows}

\* parts[0] == app_name
FirstColumnIs(row, a) == row.name.own /\ row.name.base = a

\* app_name in line
RowContains(row, a) == row.name.base = a

\* check_all_apps_status: the line that gives app a its status, the last
\* line of at least three columns whose first column is the name of a
ListingLine(listing, a) ==
    LET at == {i \in 1..Len(listing) :
                  FirstColumnIs(listing[i], a) /\ LineCounts(listing[i].line)}
    IN  IF at = {} THEN NoLine
        ELSE listing[CHOOSE i \in at : \A j \in at : j <= i].line

\* restart_single_app_if_needed: what the first line holding the name of a
\* says
SingleMatch(listing, a) ==
    LET at == {i \in 1..Len(listing) : RowContains(listing[i], a)}
        first == CHOOSE i \in at : \A j \in at : i <= j
    IN  IF at = {} THEN "none"
        ELSE IF listing[first].line.state = "started" THEN "started"
        ELSE "not_started"

ParseCall(fn, a, listFailed, listing, ok, result) ==
    [called |-> TRUE, fn |-> fn, app |-> a, listFailed |-> listFailed,
     listing |-> listing, ok |-> ok, result |-> result]

\* restart_single_app_if_needed(app_name), called on its own
call_restart_single_app_if_needed ==
    /\ pc = "idle"
    /\ \E a \in Apps, listFailed \in BOOLEAN, listing \in Listings, ok \in BOOLEAN :
          LET match == SingleMatch(listing, a)
              r == restart_single_app_if_needed(a, listFailed, match, ok, "direct")
          IN  \* the outcome of a step that is not reached is fixed
              /\ listFailed => listing = <<>>
              /\ (listFailed \/ match # "not_started") => ok
              /\ cmdLog' = r[2]
              /\ lastParse' = ParseCall("single", a, listFailed, listing, ok, r[1])
              /\ Finished("restart_single_app_if_needed", r[1])
    /\ UNCHANGED <<loginVars, sessionVars, lastAdd>>
    /\ UNCHANGED <<lastAssert, raised, lastTeardown, lastCommand>>
    /\ UNCHANGED <<statsVars, nonStatsVars, lastSwap, concVars>>

\* check_all_apps_status(), called on its own, the whole call: the listing
\* is parsed, the apps without a status are probed one by one
call_check_all_apps_status ==
    /\ pc = "idle"
    /\ \E listing \in Listings :
          LET lines == [a \in Apps |-> ListingLine(listing, a)]
          IN  \E outs \in [ProbedSingly(FALSE, lines) -> CacheOutputs] :
                 /\ app_statuses' = AllAppsStatus(FALSE, lines, outs)
                 /\ cmdLog' = ProbeCmds(FALSE, lines, outs, "direct")
                 /\ lastParse' = ParseCall("all", 0, FALSE, listing, TRUE, TRUE)
    /\ op' = "check_all_apps_status"
    /\ success' = TRUE
    /\ pc' = "done"
    /\ UNCHANGED <<stack, origin, workers, lastProbe>>
    /\ UNCHANGED <<loginVars, sessionVars, lastAdd>>
    /\ UNCHANGED <<lastAssert, raised, lastTeardown, lastCommand>>
    /\ UNCHANGED <<statsVars, nonStatsVars, lastSwap, concVars>>

-----------------------------------------------------------------------------
(* Command results and the assertion should_succeed (test/framework/dsl.py) *)

\* a text is modelled by the set of phrases it contains
CommandResult(rc, out, err) == [returncode |-> rc, stdout |-> out, stderr |-> err]

ResultSuccess(result) == result.returncode = 0

ResultFailed(result) == result.returncode # 0

\* the patterns of is_ssh_auth_error, in the order they are tried
ssh_auth_errors ==
    <<"Error getting one time auth code: Error getting SSH code: Error requesting one time code from server:",
      "Error getting one time auth code",
      "Error getting SSH code",
      "Authentication failed",
      "SSH authentication failed",
      "Error opening SSH connection: ssh: handshake failed">>

\* is_ssh_auth_error(output): <<is_auth_error, detected_error>>
is_ssh_auth_error(output) ==
    LET hits == {i \in 1..Len(ssh_auth_errors) : ssh_auth_errors[i] \in output}
    IN  IF hits = {} THEN <<FALSE, "">>
        ELSE <<TRUE, ssh_auth_errors[CHOOSE i \in hits : \A j \in hits : i <= j]>>

\* the texts a command writes to stderr: nothing, a failure that names no
\* pattern (the pattern's words in another case), one pattern, and the
\* longest pattern, which holds two others
StderrTexts ==
    {{}, {"authentication failed"}, {"Authentication failed"},
     {ssh_auth_errors[1], ssh_auth_errors[2], ssh_auth_errors[3]}}

StdoutTexts == {{}, {"Error getting SSH code"}}

ExitCodes == {0, 1}

Results ==
    {CommandResult(rc, out, err) :
        rc \in ExitCodes, out \in StdoutTexts, err \in StderrTexts}

\* the results of the re-issued command that are told apart
RetryResults == {r \in Results : r.stdout = {}}

\* output_to_check = stderr + " " + stdout
OutputToCheck(result) == result.stderr \cup result.stdout

\* time.sleep(5) between the reset of the login state and the re-login
RecoverySleep == 5

\* the steps of the recovery that may raise an Exception
RecoverySteps == {"reset", "login", "restart", "rerun"}

\* the re-issue of the original command: runner.run_command(result.command)
Reissue_WhileAuthError(a, retry) ==
    LET c == Cmd("rerun", a, ~ResultFailed(retry), "recovery")
    IN  IF ResultFailed(retry) /\ is_ssh_auth_error(OutputToCheck(retry))[1]
        THEN <<c, c>> ELSE <<c>>

Reissue(a, retry) == <<Cmd("rerun", a, ~ResultFailed(retry), "recovery")>>

\* what should_succeed does once the command has been re-issued
RetryVerdict_Asserts(retry) == IF ResultFailed(retry) THEN "failed" ELSE "pass"

RetryVerdict(retry) == IF ResultFailed(retry) THEN "skipped" ELSE "pass"

Recovered(outcome, cmds, file, target, slept, final) ==
    [outcome |-> outcome, cmds |-> cmds, file |-> file, target |-> target,
     slept |-> slept, final |-> final]

\* CFManager.reset_global_login_state(): the state file after the call
ResetLoginFile_Keeps(file) == file

ResetLoginFile(file) == save_login_state(DefaultLoginState)

\* the recovery of should_succeed for app a (0: the context has no app
\* name); retry: the result of the re-issued command, raisedAt: the step
\* that raises, if any
Recover(a, result, retry, raisedAt, targetFailed, authOk, targetAfterFail, restartOk) ==
    LET file1 == ResetLoginFile(loginFile)
        out == LoginOutcomeAt(file1, now + RecoverySleep, targetFailed, authOk,
                              targetAfterFail)
        rs == restart_single_app(a, restartOk, "recovery")
    IN  IF raisedAt = "reset"
        THEN Recovered("skipped", <<>>, loginFile, cfTarget, FALSE, result)
        ELSE IF raisedAt = "login"
        THEN Recovered("skipped", <<>>, file1, cfTarget, TRUE, result)
        ELSE IF ~out[1] \/ a = 0 \/ raisedAt = "restart"
        THEN Recovered("skipped", out[2], out[3], out[4], TRUE, result)
        ELSE IF ~rs[1] \/ raisedAt = "rerun"
        THEN Recovered("skipped", out[2] \o rs[2], out[3], out[4], TRUE, result)
        ELSE Recovered(RetryVerdict(retry), out[2] \o rs[2] \o Reissue(a, retry),
                       out[3], out[4], TRUE, retry)

\* FluentAssertion.should_succeed() on the result of a command for app a
should_succeed ==
    /\ pc = "idle"
    /\ \E a \in Apps \cup {0}, result \in Results :
          LET detected == is_ssh_auth_error(OutputToCheck(result))
          IN  IF ~ResultFailed(result) \/ ~detected[1]
              THEN /\ lastAssert' =
                         [called |-> TRUE, app |-> a, result |-> result,
                          final |-> result, detected |-> detected[2],
                          raisedAt |-> "none",
                          outcome |-> IF ResultFailed(result) THEN "failed" ELSE "pass"]
                   /\ cmdLog' = <<>>
                   /\ UNCHANGED <<now, ticks, loginFile, cfTarget>>
              ELSE /\ ticks < MaxTicks
                   /\ \E retry \in RetryResults, raisedAt \in RecoverySteps \cup {"none"},
                         targetFailed \in BOOLEAN, authOk \in BOOLEAN,
                         targetAfterFail \in {cfTarget, NoTarget},
                         restartOk \in BOOLEAN :
                         \* the outcome of a step that is not reached is fixed
                         /\ raisedAt \in {"reset", "login"} =>
                               ~targetFailed /\ authOk /\ targetAfterFail = cfTarget
                         /\ (raisedAt \in {"reset", "login", "restart"} \/ a = 0) =>
                               restartOk
                         /\ (raisedAt # "none" \/ a = 0 \/ ~restartOk) =>
                               retry = CommandResult(0, {}, {})
                         /\ LET r == Recover(a, result, retry, raisedAt, targetFailed,
                                             authOk, targetAfterFail, restartOk)
                            IN  /\ lastAssert' =
                                      [called |-> TRUE, app |-> a, result |-> result,
                                       final |-> r.final, detected |-> detected[2],
                                       raisedAt |-> raisedAt, outcome |-> r.outcome]
                                /\ cmdLog' = r.cmds
                                /\ loginFile' = r.file
                                /\ cfTarget' = r.target
                                /\ now' = IF r.slept THEN now + RecoverySleep ELSE now
                                /\ ticks' = IF r.slept THEN ticks + 1 ELSE ticks
    /\ Finished("should_succeed", TRUE)
    /\ lastLogin' = NoCall
    /\ prevLogin' = NoCall
    /\ UNCHANGED <<curConfig, sessionVars, lastAdd, raised, lastTeardown, lastCommand, auxVars>>

-----------------------------------------------------------------------------
(* run_command and the operations built on it, by the outcome of *)
(* subprocess.run                                                 *)

\* subprocess.run returned with an exit code, or raised TimeoutExpired
Exited(rc) ==
    [kind |-> "exit", returncode |-> rc,
     stderr |-> IF rc = 0 THEN {} ELSE {"FAILED"}]

TimedOut == [kind |-> "timeout", returncode |-> 0, stderr |-> {}]

Procs == {Exited(rc) : rc \in ExitCodes} \cup {TimedOut}

ProcSeqs == UNION {[1..n -> Procs] : n \in 1..MaxCmds}

\* _execute_single_command(cmd, timeout, app_name)
execute_single_command_TimeoutIsZero(proc) ==
    IF proc.kind = "timeout"
    THEN CommandResult(0, {}, {"Command timed out after"})
    ELSE CommandResult(proc.returncode, {}, proc.stderr)

execute_single_command(proc) ==
    IF proc.kind = "timeout"
    THEN CommandResult(-1, {}, {"Command timed out after"})
    ELSE CommandResult(proc.returncode, {}, proc.stderr)

\* run_command(cmd) for a list of commands: the first failure, else the
\* last result
RunCommand(procs) ==
    LET results == [i \in 1..Len(procs) |-> execute_single_command(procs[i])]
        bad == {i \in 1..Len(procs) : ResultFailed(results[i])}
    IN  IF bad = {} THEN results[Len(procs)]
        ELSE results[CHOOSE i \in bad : \A j \in bad : i <= j]

CommandCall(procs, result) == [called |-> TRUE, procs |-> procs, result |-> result]

run_command ==
    /\ pc = "idle"
    /\ \E procs \in ProcSeqs :
          /\ lastCommand' = CommandCall(procs, RunCommand(procs))
          /\ Finished("run_command", ResultSuccess(RunCommand(procs)))
    /\ UNCHANGED <<loginVars, sessionVars, cmdLog, lastAdd>>
    /\ UNCHANGED <<lastAssert, raised, lastTeardown, auxVars>>

\* restart_single_app(app_name), called on its own
call_restart_single_app ==
    /\ pc = "idle"
    /\ \E a \in Apps, proc \in Procs :
          LET result == execute_single_command(proc)
              r == restart_single_app(a, ResultSuccess(result), "direct")
          IN  /\ cmdLog' = r[2]
              /\ lastCommand' = CommandCall(<<proc>>, result)
              /\ Finished("restart_single_app", r[1])
    /\ UNCHANGED <<loginVars, sessionVars, lastAdd>>
    /\ UNCHANGED <<lastAssert, raised, lastTeardown, auxVars>>

\* check_app_status(app_name, use_cache=False), called on its own
call_check_app_status ==
    /\ pc = "idle"
    /\ \E a \in Apps, proc \in Procs, out \in AppOutputs :
          LET result == execute_single_command(proc)
          IN  /\ out.failed = ResultFailed(result)
              /\ cmdLog' = <<Cmd("app", a, ~out.failed, "direct")>>
              /\ lastCommand' = CommandCall(<<proc>>, result)
              /\ app_statuses' = [b \in {a} |-> check_app_status(out)]
    /\ op' = "check_app_status"
    /\ success' = TRUE
    /\ pc' = "done"
    /\ UNCHANGED <<stack, origin, workers, lastProbe>>
    /\ UNCHANGED <<loginVars, sessionVars, lastAdd>>
    /\ UNCHANGED <<lastAssert, raised, lastTeardown, auxVars>>

\* start_apps(), called on its own: procOf[a] is the outcome of cf start
\* for app a
call_start_apps ==
    /\ pc = "idle"
    /\ \E procOf \in [Apps -> Procs] :
          LET okApps == {a \in Apps : ResultSuccess(execute_single_command(procOf[a]))}
              cmds == RunEach(AppSeq, "start", okApps, "direct")
          IN  /\ cmdLog' = cmds
              /\ lastCommand' = CommandCall([i \in 1..NumApps |-> procOf[AppSeq[i]]],
                                            execute_single_command(procOf[AppSeq[NumApps]]))
              /\ Finished("start_apps", AllOk(cmds))
    /\ UNCHANGED <<loginVars, sessionVars, lastAdd>>
    /\ UNCHANGED <<lastAssert, raised, lastTeardown, auxVars>>

\* login(), by the outcomes of cf target and cf login
call_login ==
    /\ pc = "idle"
    /\ ~LoginFileMalformed
    /\ \E ptarget \in Procs, plogin \in Procs, targetAfterFail \in {cfTarget, NoTarget} :
          LET out == LoginOutcome(ResultFailed(execute_single_command(ptarget)),
                                  ResultSuccess(execute_single_command(plogin)),
                                  targetAfterFail)
          IN  /\ cmdLog' = out[2]
              /\ loginFile' = out[3]
              /\ cfTarget' = out[4]
              /\ lastCommand' = CommandCall(<<ptarget, plogin>>,
                                            execute_single_command(plogin))
              /\ Finished("login", out[1])
    /\ lastLogin' = NoCall
    /\ prevLogin' = NoCall
    /\ UNCHANGED <<now, ticks, curConfig, sessionVars, lastAdd>>
    /\ UNCHANGED <<lastAssert, raised, lastTeardown, auxVars>>

-----------------------------------------------------------------------------

vars ==
    <<now, ticks, curConfig, loginFile, cfTarget, cmdLog, lastLogin, prevLogin,
      pc, op, stack, origin, app_statuses, workers, success, lastProbe,
      restartFile, restartMode, cf_logged_in, initialized, test, lastAdd,
      lastAssert, raised, lastTeardown, lastCommand, auxVars>>

Init ==
    /\ now = 0
    /\ ticks = 0
    /\ curConfig = BaseConfig
    /\ loginFile = NoLoginFile
    /\ cfTarget = NoTarget
    /\ cmdLog = <<>>
    /\ lastLogin = NoCall
    /\ prevLogin = NoCall
    /\ pc = "idle"
    /\ op = "none"
    /\ stack = <<>>
    /\ origin = "none"
    /\ app_statuses = NoStatuses
    /\ workers = NoWorkers
    /\ success = TRUE
    /\ lastProbe = NoProbe
    /\ restartFile = NoRestartFile
    /\ restartMode = "smart_parallel"
    /\ cf_logged_in = FALSE
    /\ initialized = FALSE
    /\ test = NoTest
    /\ lastAdd = NoCall
    /\ lastAssert = NoCall
    /\ raised = FALSE
    /\ lastTeardown = NoCall
    /\ lastCommand = NoCall
    /\ stats_file = NoStatsFile
    /\ cf_command_stats = <<>>
    /\ stats_enabled = FALSE
    /\ cls_stats_file = TRUE
    /\ lastStat = NoCall
    /\ interrupt_count = 0
    /\ launcher_interrupt_count = 0
    /\ processes = Running
    /\ lastInterrupt = NoCall
    /\ assigned = [item \in Items |-> NoWorkerYet]
    /\ running = [w \in XWorkers |-> NoItem]
    /\ finished = {}
    /\ app_status_cache = EmptyCache
    /\ cache_timestamp = NeverCached
    /\ lastStatus = NoCall
    /\ lastSwap = NoCall
    /\ lastParse = NoCall
    /\ tpc = [t \in Threads |-> "idle"]
    /\ tproc = [t \in Threads |-> 1]
    /\ stats_lock = [p \in Processes |-> NoThread]
    /\ proc_stats = [p \in Processes |-> <<>>]
    /\ recorded = {}
    /\ overlapped = FALSE
    /\ mgr_lock = NoThread
    /\ tcall = [t \in Threads |-> NoCall]
    /\ collected = [t \in Threads |-> <<>>]
    /\ appended = {}

NextLogin ==
    \/ login
    \/ reset_global_login_state
    \/ cleanup_login_state_file
    \/ Tick
    \/ Reconfigure
    \/ TargetLost

SpecLogin == Init /\ [][NextLogin]_vars

NextBatch ==
    \/ CallBatch
    \/ check_all_apps_status
    \/ check_missing_app
    \/ restart_apps
    \/ start_apps
    \/ restart_apps_if_needed
    \/ start_apps_if_needed
    \/ restart_apps_parallel
    \/ start_apps_parallel
    \/ restart_apps_if_needed_parallel
    \/ start_apps_if_needed_parallel
    \/ RunWorker
    \/ Join
    \/ Return

SpecBatch == Init /\ [][NextBatch]_vars

NextDeferred ==
    \/ add_deferred_restart_app
    \/ clear_deferred_restart_apps
    \/ cleanup_restart_state_file
    \/ process_deferred_restarts
    \/ process_deferred_restarts_returns
    \/ check_all_apps_status
    \/ check_missing_app
    \/ restart_apps
    \/ restart_apps_if_needed
    \/ restart_apps_parallel
    \/ restart_apps_if_needed_parallel
    \/ RunWorker
    \/ Join
    \/ Return

SpecDeferred == Init /\ [][NextDeferred]_vars

NextSession ==
    \/ SetRestartMode
    \/ setup_session
    \/ restart_all_apps_at_start
    \/ teardown_session
    \/ test_defers_restart
    \/ RunTest
    \/ wrapper_finally
    \/ process_deferred_restarts_returns
    \/ wrapper_restart
    \/ pytest_runtest_teardown
    \/ check_all_apps_status
    \/ check_missing_app
    \/ restart_apps
    \/ restart_apps_if_needed
    \/ start_apps_if_needed
    \/ restart_apps_parallel
    \/ restart_apps_if_needed_parallel
    \/ RunWorker
    \/ Join
    \/ Return

SpecSession == Init /\ [][NextSession]_vars

NextCommand ==
    \/ run_command
    \/ call_restart_single_app
    \/ call_check_app_status
    \/ call_start_apps
    \/ call_login
    \/ TargetLost
    \/ Return

SpecCommand == Init /\ [][NextCommand]_vars

NextCorrupt ==
    \/ CorruptLoginFile
    \/ CorruptRestartFile
    \/ cleanup_login_state_file
    \/ cleanup_restart_state_file
    \/ login
    \/ query_has_deferred_restarts
    \/ get_deferred_restart_apps
    \/ add_deferred_restart_app
    \/ process_deferred_restarts
    \/ process_deferred_restarts_returns
    \/ check_all_apps_status
    \/ check_missing_app
    \/ restart_apps
    \/ restart_apps_if_needed
    \/ restart_apps_parallel
    \/ restart_apps_if_needed_parallel
    \/ RunWorker
    \/ Join
    \/ Return

SpecCorrupt == Init /\ [][NextCorrupt]_vars

NextCancel ==
    \/ CallParallel
    \/ check_all_apps_status
    \/ check_missing_app
    \/ restart_apps_parallel
    \/ start_apps_parallel
    \/ restart_apps_if_needed_parallel
    \/ start_apps_if_needed_parallel
    \/ RunWorker
    \/ CancelWorker
    \/ Join
    \/ Return

SpecCancel == Init /\ [][NextCancel]_vars

NextRecovery ==
    \/ should_succeed
    \/ login
    \/ TargetLost
    \/ Return

SpecRecovery == Init /\ [][NextRecovery]_vars

\* the command statistics
NextStats ==
    \/ log_cf_command_stats
    \/ get_stats
    \/ clear_stats
    \/ cleanup_temp_files
    \/ SetStatsEnabled
    \/ CorruptStatsFile

SpecStats == Init /\ [][NextStats]_vars

\* interrupts of a process that records command statistics
NextInterrupt ==
    \/ sigint_handler
    \/ handle_keyboard_interrupt
    \/ log_cf_command_stats
    \/ SetStatsEnabled

SpecInterrupt == Init /\ [][NextInterrupt]_vars

\* a parallel run
NextSchedule ==
    \/ assign_scope
    \/ run_item
    \/ finish_item

SpecSchedule == Init /\ [][NextSchedule]_vars

\* the status cache
NextCache ==
    \/ check_app_status_cached
    \/ check_all_apps_status_cached
    \/ CacheTick

SpecCache == Init /\ [][NextCache]_vars

\* the parsers of the `cf apps` listing
NextListing ==
    \/ call_restart_single_app_if_needed
    \/ call_check_all_apps_status
    \/ Return

SpecListing == Init /\ [][NextListing]_vars

\* processes of their own recording on the one statistics file
NextProcesses ==
    \/ SetStatsEnabled
    \/ add_command_stat_enter(FALSE)
    \/ add_command_stat_acquire
    \/ add_command_stat_load
    \/ add_command_stat_append
    \/ add_command_stat_save

SpecProcesses == Init /\ [][NextProcesses]_vars

\* threads of one process recording while the statistics are read
NextThreads ==
    \/ SetStatsEnabled
    \/ add_command_stat_enter(TRUE)
    \/ add_command_stat_acquire
    \/ add_command_stat_load
    \/ add_command_stat_append
    \/ add_command_stat_save
    \/ reader_load_stats_from_file

SpecThreads == Init /\ [][NextThreads]_vars

\* threads of one process working on the deferred-restart queue
NextQueueThreads ==
    \/ manager_call(QueueCalls)
    \/ manager_acquire
    \/ manager_locked
    \/ manager_external

SpecQueueThreads == Init /\ [][NextQueueThreads]_vars

\* threads of one process calling the operations that take the lock
NextLocks ==
    \/ manager_call(LockCalls)
    \/ manager_acquire
    \/ manager_locked
    \/ manager_external

\* no thread is stopped for ever while it can take a step
SpecLocks ==
    /\ Init
    /\ [][NextLocks]_vars
    /\ WF_vars(manager_acquire)
    /\ WF_vars(manager_locked)
    /\ WF_vars(manager_external)

-----------------------------------------------------------------------------
(* Properties of login() *)

AuthIssued(call) == Issued(call.cmds, "login")

ProbeMatched(call) == is_logged_in_correctly(call.probe, call.config)

TwoLoginsInSuccession ==
    /\ lastLogin.called
    /\ prevLogin.called
    /\ prevLogin.config = lastLogin.config

ConfigChanged(call) ==
    /\ call.present
    /\ call.pre.login_config # call.config

\* C4 (as stated): a login() whose config differs from the persisted
\* login_config always issues the real authentication command.
C4_AlwaysReauthenticates ==
    (lastLogin.called /\ ConfigChanged(lastLogin)) => AuthIssued(lastLogin)

\* C4 (amended): a login() whose config differs from the persisted
\* login_config never takes the persisted-state shortcut: it probes the live
\* target first and issues the real authentication command exactly when that
\* probe fails or reports another api endpoint, user, org or space.
C4_ChangedConfigProbesThenAuthenticates ==
    (lastLogin.called /\ ConfigChanged(lastLogin)) =>
        /\ Len(lastLogin.cmds) >= 1
        /\ lastLogin.cmds[1].cmd = "target"
        /\ AuthIssued(lastLogin) <=> ~ProbeMatched(lastLogin)

C4_Witness ==
    /\ lastLogin.called
    /\ ConfigChanged(lastLogin)
    /\ lastLogin.pre.logged_in
    /\ lastLogin.t - lastLogin.pre.login_timestamp < 1800
    /\ AuthIssued(lastLogin)

PersistedStateValid(call) ==
    /\ call.pre.logged_in
    /\ call.pre.login_config = call.config
    /\ call.t - call.pre.login_timestamp < 1800

\* C5 (as stated): login() returns success without issuing authentication
\* if and only if the persisted state is logged-in, has the current config
\* and is younger than 1800 seconds.
C5_NoAuthIffStateValid ==
    lastLogin.called =>
        ((lastLogin.ret /\ ~AuthIssued(lastLogin)) <=> PersistedStateValid(lastLogin))

\* C5 (amended): login() returns success without issuing any command at all
\* (neither the cf target probe nor cf login) if and only if the persisted
\* state is logged-in, has the current config and is younger than 1800
\* seconds.
C5_ShortcutIffStateValid ==
    lastLogin.called =>
        ((lastLogin.ret /\ lastLogin.cmds = <<>>) <=> PersistedStateValid(lastLogin))

\* a state aged 5 minutes takes the shortcut
C5_Witness ==
    /\ lastLogin.called
    /\ lastLogin.pre.logged_in
    /\ lastLogin.pre.login_config = lastLogin.config
    /\ lastLogin.t - lastLogin.pre.login_timestamp = 300
    /\ lastLogin.ret
    /\ lastLogin.cmds = <<>>

\* C6 (as stated): with no login-state file, login() issues the real
\* authentication command and writes a new state file with logged_in = true,
\* the current config and the current timestamp.
C6_NoFileFullAuthentication ==
    (lastLogin.called /\ ~lastLogin.present) =>
        /\ AuthIssued(lastLogin)
        /\ loginFile = [present |-> TRUE, shape |-> "state",
                        state |-> [logged_in |-> TRUE,
                                   login_config |-> lastLogin.config,
                                   login_timestamp |-> lastLogin.t]]

\* C6 (amended): with no login-state file, login() probes the live target
\* and issues the real authentication command unless the probe already
\* matches the current config; whenever it returns success it has written a
\* new state file with logged_in = true, the current config and the current
\* timestamp, and when the authentication command fails it returns false and
\* writes no file.
C6_NoFileProbesAndWritesOnSuccess ==
    (lastLogin.called /\ ~lastLogin.present) =>
        /\ Issued(lastLogin.cmds, "target")
        /\ AuthIssued(lastLogin) <=> ~ProbeMatched(lastLogin)
        /\ lastLogin.ret =>
              loginFile = [present |-> TRUE, shape |-> "state",
                           state |-> [logged_in |-> TRUE,
                                      login_config |-> lastLogin.config,
                                      login_timestamp |-> lastLogin.t]]
        /\ ~lastLogin.ret => ~loginFile.present

C6_Witness ==
    /\ lastLogin.called
    /\ ~lastLogin.present
    /\ AuthIssued(lastLogin)
    /\ lastLogin.ret
    /\ loginFile.present
    /\ loginFile.state.login_config = lastLogin.config

\* the login() that has just returned issued `cf login` and it failed
AuthFailed(call) ==
    \E i \in 1..Len(call.cmds) : call.cmds[i].cmd = "login" /\ ~call.cmds[i].ok

\* C31: when the authentication command fails, login() returns false after
\* issuing it exactly once, and the persisted state is what it was before
\* the call or a logged-out state
C31_FailedLoginSurfaces ==
    (lastLogin.called /\ AuthFailed(lastLogin)) =>
        /\ ~lastLogin.ret
        /\ CountCmd(lastLogin.cmds, "login") = 1
        /\ \/ /\ loginFile.present = lastLogin.present
              /\ load_login_state = lastLogin.pre
           \/ ~load_login_state.logged_in

\* a failed authentication over a persisted state that says logged in
C31_Witness ==
    /\ lastLogin.called
    /\ AuthFailed(lastLogin)
    /\ ~lastLogin.ret
    /\ lastLogin.present
    /\ lastLogin.pre.logged_in
    /\ loginFile.state = lastLogin.pre

-----------------------------------------------------------------------------
(* Properties of the batch operations *)

\* the start/restart commands issued so far by the main thread
LifecycleLog == SelectSeq(cmdLog, LAMBDA c : c.cmd \in LifecycleCmds)

\* the start/restart commands issued so far for app a, by any thread
IssuedKinds(a) ==
    {LifecycleLog[i].cmd : i \in {j \in 1..Len(LifecycleLog) : LifecycleLog[j].app = a}}
    \cup (IF workers[a].cmd # "none" /\ workers[a].done THEN {workers[a].cmd} ELSE {})

LifecycleCount(a) ==
    Cardinality({j \in 1..Len(LifecycleLog) : LifecycleLog[j].app = a})
    + (IF workers[a].cmd # "none" /\ workers[a].done THEN 1 ELSE 0)

\* the decision table: rows Running, Stopped, Crashed, Unknown; columns
\* Always/Parallel and Smart/SmartParallel
TableAction(o, status) ==
    IF o \in {"restart_apps", "restart_apps_parallel"} THEN "restart"
    ELSE CASE status = "running" -> "restart"
           [] status = "stopped" -> "start"
           [] status = "crashed" -> "start"
           [] status = "unknown" -> "restart"

RestartOps ==
    {"restart_apps", "restart_apps_parallel",
     "restart_apps_if_needed", "restart_apps_if_needed_parallel"}

C9_ParallelNoEarlyAbort ==
    op \in ParOps =>
        /\ pc = "join" =>
              \A a \in Dispatched : ~workers[a].done => ENABLED Worker(a)
        /\ pc = "done" =>
              /\ \A a \in Dispatched : workers[a].done
              /\ (\E k \in Dispatched : ~workers[k].ok) => ~success
              /\ op \in {"restart_apps_parallel", "start_apps_parallel",
                         "restart_apps_if_needed_parallel"} => Dispatched = Apps
              /\ op = "start_apps_if_needed_parallel" =>
                    Dispatched = {a \in Apps : StatusGet(app_statuses, a) # "running"}

C9_Witness ==
    /\ pc = "done"
    /\ op \in ParOps
    /\ Dispatched = Apps
    /\ \E k \in Apps :
          /\ ~workers[k].ok
          /\ \A a \in Apps \ {k} : workers[a].done /\ workers[a].ok
    /\ ~success

\* what a sequential operation has to issue for app a
NeedsCommand(o, a) ==
    o = "start_apps_if_needed" => StatusGet(app_statuses, a) # "running"

\* C10: when a sequential operation has finished, one command has been
\* issued for every configured app that needs one, whether or not an earlier
\* command failed, and the result is true exactly when every issued command
\* succeeded.
C10_SequentialAttemptsAll ==
    (pc = "done" /\ op \in SeqOps) =>
        /\ \A a \in Apps :
              LifecycleCount(a) = IF NeedsCommand(op, a) THEN 1 ELSE 0
        /\ success <=> \A i \in 1..Len(LifecycleLog) : LifecycleLog[i].ok

C10_Witness ==
    /\ pc = "done"
    /\ op \in SeqOps
    /\ Len(LifecycleLog) = NumApps
    /\ ~LifecycleLog[1].ok
    /\ \A i \in 2..NumApps : LifecycleLog[i].ok
    /\ ~success

-----------------------------------------------------------------------------
(* Properties of the deferred-restart queue *)

EntryCount(entries, a, c) ==
    Cardinality({i \in 1..Len(entries) :
                    entries[i].app = a /\ entries[i].test_class = c})

\* C7: the persisted queue never holds two entries for the same app and test
\* class, and a returned add_deferred_restart_app call has kept every entry
\* that was there (entries of the same app for other classes included) and
\* left exactly one entry for its own pair: appended when the pair was new,
\* nothing added when it was already there.
C7_OneEntryPerAppAndClass ==
    LET entries == load_restart_state
    IN  /\ \A a \in Apps, c \in TestClasses : EntryCount(entries, a, c) <= 1
        /\ (pc = "done" /\ op = "add_deferred_restart_app") =>
              /\ Len(entries) = Len(lastAdd.before) +
                    (IF EntryCount(lastAdd.before, lastAdd.app, lastAdd.test_class) = 0
                     THEN 1 ELSE 0)
              /\ \A i \in 1..Len(lastAdd.before) : entries[i] = lastAdd.before[i]
              /\ EntryCount(entries, lastAdd.app, lastAdd.test_class) = 1

\* a second call for (app1, ClassA) when (app1, ClassA) and (app1, ClassB)
\* are queued: both entries are there, once each
C7_Witness ==
    LET entries == load_restart_state
    IN  /\ pc = "done"
        /\ op = "add_deferred_restart_app"
        /\ lastAdd.app = 1
        /\ lastAdd.test_class = "ClassA"
        /\ EntryCount(lastAdd.before, 1, "ClassA") = 1
        /\ Len(entries) = 2
        /\ EntryCount(entries, 1, "ClassA") = 1
        /\ EntryCount(entries, 1, "ClassB") = 1

\* process_deferred_restarts has collected the entries and not yet returned
InProcessDeferred ==
    /\ stack # <<>>
    /\ stack[Len(stack)] = "process_deferred_restarts"

\* the start/restart commands of origin `by` issued so far, by any thread
CommandsBy(by) ==
    {cmdLog[i] : i \in {j \in 1..Len(cmdLog) :
                           cmdLog[j].cmd \in LifecycleCmds /\ cmdLog[j].by = by}}
    \cup {Cmd(workers[a].cmd, a, workers[a].ok, by) :
             a \in {b \in DOMAIN workers :
                       workers[b].done /\ workers[b].cmd \in LifecycleCmds
                       /\ workers[b].by = by}}

C8_State ==
    /\ InProcessDeferred => restartFile = save_restart_state(<<>>)
    /\ CommandsBy("deferred") # {} => load_restart_state = <<>>
    /\ (pc = "done" /\ op = "process_deferred_restarts") =>
          /\ load_restart_state = <<>>
          /\ (\E c \in CommandsBy("deferred") : ~c.ok) => ~success

C8_Step ==
    ~(CommandsBy("deferred")' \subseteq CommandsBy("deferred")) =>
        /\ InProcessDeferred
        /\ restartFile = save_restart_state(<<>>)

\* C8: process_deferred_restarts has written the empty queue before any of
\* its start/restart commands is issued (every step that issues one starts
\* with the empty queue persisted), the queue stays empty until it returns,
\* and it returns false when a command of its batch failed, the queue still
\* being empty: no collected entry is put back.
C8_ClearedBeforeRestarts == [](C8_State) /\ [][C8_Step]_vars

\* a batch of process_deferred_restarts has failed and the call has returned
C8_Witness ==
    /\ pc = "done"
    /\ op = "process_deferred_restarts"
    /\ \E c \in CommandsBy("deferred") : ~c.ok
    /\ ~success
    /\ restartFile = save_restart_state(<<>>)

-----------------------------------------------------------------------------
(* Properties of the restart modes *)

LifecyclePaths == {"initial", "after_test", "deferred", "failure"}

\* C2 as stated: while RESTART_APPS is never, no start or restart command
\* has been issued on any lifecycle path (initial restart, restart after a
\* test, deferred restarts, restart after a failed test).
C2_NeverIssuesNoCommand ==
    restartMode = "never" =>
        \A by \in LifecyclePaths : CommandsBy(by) = {}

-----------------------------------------------------------------------------
(* Properties of should_succeed *)

AssertReturned == pc = "done" /\ op = "should_succeed" /\ lastAssert.called

\* the recovery was triggered: the command failed and its combined output
\* holds an authentication-failure signature
RecoveryTriggered ==
    /\ ResultFailed(lastAssert.result)
    /\ is_ssh_auth_error(OutputToCheck(lastAssert.result))[1]

\* C11: a should_succeed call issues cf login at most once (after at most
\* one cf target probe), restarts at most one app, the app of the test, at
\* most once, and re-issues the original command at most once, also when the
\* re-issued command fails with an authentication-failure signature again;
\* it issues no command at all unless the recovery was triggered.
C11_AtMostOneRetry ==
    AssertReturned =>
        /\ CountCmd(cmdLog, "target") <= 1
        /\ CountCmd(cmdLog, "login") <= 1
        /\ CountCmd(cmdLog, "restart") <= 1
        /\ CountCmd(cmdLog, "rerun") <= 1
        /\ \A i \in 1..Len(cmdLog) :
              cmdLog[i].cmd \in {"restart", "rerun"} => cmdLog[i].app = lastAssert.app
        /\ ~RecoveryTriggered => cmdLog = <<>>

\* the re-issued command fails with a signature again and is not re-issued
C11_Witness ==
    /\ AssertReturned
    /\ RecoveryTriggered
    /\ CountCmd(cmdLog, "login") = 1
    /\ CountCmd(cmdLog, "restart") = 1
    /\ CountCmd(cmdLog, "rerun") = 1
    /\ ResultFailed(lastAssert.final)
    /\ is_ssh_auth_error(OutputToCheck(lastAssert.final))[1]

ReissuedOk == \E i \in 1..Len(cmdLog) : cmdLog[i].cmd = "rerun" /\ cmdLog[i].ok

\* C12: once the recovery is triggered the outcome is a pass exactly when
\* the command was re-issued and succeeded, and skipped in every other case
\* (failed re-login, no app name, failed restart, a recovery step that
\* raises, a re-issued command that fails); the outcome is an assertion
\* failure exactly when the command failed without a signature.
C12_SkippedNotFailed ==
    AssertReturned =>
        /\ RecoveryTriggered =>
              /\ lastAssert.outcome \in {"pass", "skipped"}
              /\ lastAssert.outcome = "pass" <=> ReissuedOk
              /\ lastAssert.raisedAt # "none" => lastAssert.outcome = "skipped"
        /\ lastAssert.outcome = "failed" <=>
              (ResultFailed(lastAssert.result) /\ ~RecoveryTriggered)
        /\ (~RecoveryTriggered /\ lastAssert.outcome = "pass") =>
              ~ResultFailed(lastAssert.result)

\* the re-issued command fails without any signature: skipped all the same
C12_Witness ==
    /\ AssertReturned
    /\ RecoveryTriggered
    /\ CountCmd(cmdLog, "rerun") = 1
    /\ ResultFailed(lastAssert.final)
    /\ ~is_ssh_auth_error(OutputToCheck(lastAssert.final))[1]
    /\ lastAssert.outcome = "skipped"

\* the position of the first command c in the log, 0 when there is none
FirstCmd(log, c) ==
    LET at == {i \in 1..Len(log) : log[i].cmd = c}
    IN  IF at = {} THEN 0 ELSE CHOOSE i \in at : \A j \in at : i <= j

\* C26: the original command is re-issued only after cf login was issued,
\* and succeeded, in the same recovery
C26_ReissueAfterAuthentication ==
    (AssertReturned /\ Issued(cmdLog, "rerun")) =>
        /\ FirstCmd(cmdLog, "login") > 0
        /\ FirstCmd(cmdLog, "login") < FirstCmd(cmdLog, "rerun")
        /\ cmdLog[FirstCmd(cmdLog, "login")].ok

\* login() of the recovery returned true, by the commands it issued: cf login
\* succeeded, or the cf target probe alone satisfied it
RecoveryLoginSucceeded ==
    \/ FirstCmd(cmdLog, "login") > 0 /\ cmdLog[FirstCmd(cmdLog, "login")].ok
    \/ FirstCmd(cmdLog, "login") = 0 /\ FirstCmd(cmdLog, "target") > 0
                                      /\ cmdLog[FirstCmd(cmdLog, "target")].ok

\* C27: in a recovery login() finds the reset state, so it never takes the
\* persisted-state shortcut: it probes cf target first, and the state file
\* afterwards is the reset state or a state written by this login(); the
\* restart is issued only after login() succeeded and the command is
\* re-issued only after the restart succeeded; when login() fails there is
\* no restart and no re-issue
C27_RecoveryOrder ==
    (AssertReturned /\ RecoveryTriggered) =>
        /\ lastAssert.raisedAt \notin {"reset", "login"} =>
              /\ cmdLog # <<>>
              /\ cmdLog[1].cmd = "target"
              /\ loginFile.present
              /\ IF RecoveryLoginSucceeded
                 THEN loginFile.state = NewLoginState(curConfig, now)
                 ELSE loginFile.state = DefaultLoginState
        /\ lastAssert.raisedAt = "login" =>
              cmdLog = <<>> /\ loginFile.state = DefaultLoginState
        /\ Issued(cmdLog, "restart") =>
              /\ RecoveryLoginSucceeded
              /\ \A i \in 1..Len(cmdLog) :
                    cmdLog[i].cmd \in {"target", "login"} =>
                       i < FirstCmd(cmdLog, "restart")
        /\ Issued(cmdLog, "rerun") =>
              /\ FirstCmd(cmdLog, "restart") > 0
              /\ FirstCmd(cmdLog, "restart") < FirstCmd(cmdLog, "rerun")
              /\ cmdLog[FirstCmd(cmdLog, "restart")].ok
        /\ ~RecoveryLoginSucceeded =>
              ~Issued(cmdLog, "restart") /\ ~Issued(cmdLog, "rerun")

\* the persisted state was valid when the command failed: without the reset
\* login() would have returned at once; the recovery ran to the re-issue
C27_Witness ==
    /\ AssertReturned
    /\ RecoveryTriggered
    /\ Issued(cmdLog, "rerun")
    /\ cmdLog[1].cmd = "target"
    /\ FirstCmd(cmdLog, "login") = 0
    /\ loginFile.state = NewLoginState(curConfig, now)

-----------------------------------------------------------------------------
(* Properties of run_command *)

\* the command did not exit with 0: a non-zero exit code or a timeout
ProcFailed(proc) == proc.kind = "timeout" \/ proc.returncode # 0

FailedProcs(procs) == {i \in 1..Len(procs) : ProcFailed(procs[i])}

\* C20: no operation ends by raising when a command exits non-zero or
\* times out. run_command returns a result with success = false exactly
\* when a command of its list failed, and for a timeout the result has
\* return code -1 and a stderr naming the timeout; restart_single_app and
\* start_apps return false when a command failed, login returns false when
\* cf login failed, and check_app_status returns unknown when cf app failed.
C20_CommandFailureIsAResult ==
    /\ ~raised
    /\ (pc = "done" /\ lastCommand.called) =>
          LET procs == lastCommand.procs
              result == lastCommand.result
              bad == FailedProcs(procs)
          IN  /\ op = "run_command" =>
                    /\ ResultSuccess(result) <=> bad = {}
                    /\ success = ResultSuccess(result)
                    /\ ResultFailed(result) = ~ResultSuccess(result)
                    /\ (bad # {} /\ procs[CHOOSE i \in bad : \A j \in bad : i <= j].kind
                                       = "timeout") =>
                          /\ result.returncode = -1
                          /\ "Command timed out after" \in result.stderr
              /\ op \in {"restart_single_app", "start_apps"} =>
                    (success <=> bad = {})
              /\ (op = "login" /\ Issued(cmdLog, "login")) =>
                    (success <=> ~ProcFailed(procs[2]))
              /\ (op = "check_app_status" /\ bad # {}) =>
                    \A a \in DOMAIN app_statuses : app_statuses[a] = "unknown"

\* a list of two commands whose second one times out
C20_Witness ==
    /\ pc = "done"
    /\ op = "run_command"
    /\ lastCommand.called
    /\ Len(lastCommand.procs) = 2
    /\ lastCommand.procs[2].kind = "timeout"
    /\ lastCommand.result.returncode = -1
    /\ ~success

-----------------------------------------------------------------------------
(* Properties of the status probe *)

\* a direct check_all_apps_status call has returned and `cf apps` succeeded
ListingParsed ==
    /\ pc = "done"
    /\ op = "check_all_apps_status"
    /\ lastProbe.called
    /\ ~lastProbe.listFailed

\* name, requested state started or stopped, and for started a process
\* column name:running/total with a numeric running count
WellFormedLine(line) ==
    /\ line.ncols >= 3
    /\ line.state \in {"started", "stopped"}
    /\ line.state = "started" =>
          line.procs.colon /\ line.procs.slash /\ line.procs.numeric

\* the AppStatus mapping of a well-formed line
MappedStatus(line) ==
    IF line.state = "stopped" THEN "stopped"
    ELSE IF line.procs.running > 0 THEN "running"
    ELSE "stopped"

ParseFailure(line) == line.ncols > 0 /\ ~WellFormedLine(line)

ProbeReturned ==
    /\ pc = "done"
    /\ op = "check_all_apps_status"
    /\ lastProbe.called

\* the `cf app` commands the call issued for app a
AppProbes(a) ==
    Cardinality({i \in 1..Len(lastProbe.cmds) :
                    lastProbe.cmds[i].cmd = "app" /\ lastProbe.cmds[i].app = a})

C33_FallbackCoversEveryApp ==
    ProbeReturned =>
        /\ DOMAIN app_statuses = Apps
        /\ lastProbe.listFailed =>
              \A a \in Apps :
                 /\ AppProbes(a) = 1
                 /\ a \in DOMAIN lastProbe.outs
                 /\ lastProbe.outs[a].failed => app_statuses[a] = "unknown"
                 /\ app_statuses[a] = check_app_status(lastProbe.outs[a])

\* the listing failed, the probe of one app failed and another succeeded
C33_Witness ==
    /\ ProbeReturned
    /\ lastProbe.listFailed
    /\ lastProbe.outs[1].failed
    /\ app_statuses[1] = "unknown"
    /\ ~lastProbe.outs[2].failed
    /\ app_statuses[2] = "running"

-----------------------------------------------------------------------------
(* Properties of the state files *)

\* the restart-state file is unreadable or has an unexpected shape
RestartFileCorrupt ==
    restartFile.present /\ restartFile.shape \in {"invalid", "list", "no_app"}

\* C15 as stated: whatever the state files hold, no operation on them
\* raises, and has_deferred_restarts() on an unreadable or ill-shaped
\* restart-state file returns what it returns for the empty queue, false.
C15_CorruptStateIsDefault ==
    /\ ~raised
    /\ (pc = "done" /\ op = "has_deferred_restarts" /\ RestartFileCorrupt) => ~success

-----------------------------------------------------------------------------
(* Properties of cancelled workers *)

\* C14 as stated: when a parallel operation has returned, a result is
\* recorded for every dispatched app, a cancelled worker's included, and the
\* operation has returned false when a worker was cancelled.
C14_CancelledWorkerRecordsFailure ==
    (pc = "done" /\ op \in ParOps) =>
        /\ \A a \in Dispatched : workers[a].stored
        /\ (\E a \in Dispatched : workers[a].cancelled) => ~success

-----------------------------------------------------------------------------
(* Properties of the test session *)

\* the hooks of a test have all run
TestOver == pc = "done" /\ op = "test" /\ test.running

\* the commands of the restart after a failed test
FailureRestarts == SelectSeq(cmdLog, LAMBDA c : c.by = "failure")

C18_OptOutIsDeferred ==
    (TestOver /\ test.passed /\ test.no_restart /\ ~test.should_restart) =>
        /\ has_deferred_restarts
        /\ \E i \in 1..Len(load_restart_state) :
              load_restart_state[i].app = test.app

\* the start/restart commands issued so far, by any thread
LifecycleIssued ==
    LifecycleLog # <<>>
    \/ \E a \in Apps : workers[a].cmd \in LifecycleCmds /\ workers[a].done

\* C19: when teardown_session has returned, the deferred queue is empty and
\* no start or restart command has been issued, whatever entries were
\* pending when it was called.
C19_TeardownDiscardsQueue ==
    (pc = "done" /\ op = "teardown_session" /\ ~raised) =>
        /\ lastTeardown.called
        /\ load_restart_state = <<>>
        /\ ~has_deferred_restarts
        /\ ~LifecycleIssued

\* two entries were pending
C19_Witness ==
    /\ pc = "done"
    /\ op = "teardown_session"
    /\ lastTeardown.called
    /\ Len(lastTeardown.pending) = 2
    /\ load_restart_state = <<>>
    /\ cmdLog = <<>>

-----------------------------------------------------------------------------
(* Properties of the command statistics *)

\* the entries of the persisted ledger
Persisted(file) == IF file.shape = "stats" THEN file.stats ELSE <<>>

\* C21: with the flag off add_command_stat leaves the persisted ledger
\* unchanged; with the flag on it appends exactly one entry to it and keeps
\* every entry persisted before, in order
C21_LedgerAppendOnly ==
    lastStat.called =>
        IF lastStat.enabled
        THEN Persisted(lastStat.after) =
                Append(Persisted(lastStat.before), lastStat.entry)
        ELSE lastStat.after = lastStat.before

\* has_stats() / get_stats() called in the state after the step
StatsSeenAfterStep == load_stats_from_file(stats_file', cf_command_stats')

\* C34: once cleanup_temp_files has purged the ledger, has_stats() is false
\* and get_stats() is empty, and the first record after the purge leaves a
\* ledger that holds the new entry only
C34_PurgeLeavesNothing ==
    [][/\ (cls_stats_file /\ ~cls_stats_file') => StatsSeenAfterStep = <<>>
       /\ (~cls_stats_file /\ stats_file.shape = "absent"
             /\ lastStat'.called /\ lastStat'.enabled /\ lastStat' # lastStat) =>
             Persisted(stats_file') = <<lastStat'.entry>>]_vars

\* entry e is in the persisted ledger
InLedger(e) ==
    \E i \in 1..Len(Persisted(stats_file)) : Persisted(stats_file)[i] = e

\* no add_command_stat call is in progress and some have returned
AllRecorded ==
    /\ \A t \in Threads : tpc[t] \in {"idle", "skipped", "returned"}
    /\ recorded # {}

\* C35: with processes recording once each on the shared file, the ledger
\* ends with the records of some of them, each once, and a record is
\* missing from it only when two processes were inside add_command_stat at
\* the same time, which the per-process lock allows
C35_LostUpdateOnlyByOverlap ==
    AllRecorded =>
        /\ Len(Persisted(stats_file)) >= 1
        /\ \A i \in 1..Len(Persisted(stats_file)) :
              /\ Persisted(stats_file)[i] \in recorded
              /\ \A j \in 1..Len(Persisted(stats_file)) :
                    Persisted(stats_file)[i] = Persisted(stats_file)[j] => i = j
        /\ (\E e \in recorded : ~InLedger(e)) => overlapped

\* the lost update: both processes have recorded, the ledger holds one record
C35_Witness ==
    /\ AllRecorded
    /\ tpc[1] = "returned"
    /\ tpc[2] = "returned"
    /\ tproc[1] # tproc[2]
    /\ recorded = {ThreadEntry(1), ThreadEntry(2)}
    /\ Len(Persisted(stats_file)) = 1

\* C37: within one process the entry of every add_command_stat call that
\* has returned is in the ledger file, whatever readers of the statistics
\* do meanwhile
C37_RecordedIsPersisted ==
    (\A t \in Threads : tproc[t] = 1) => \A e \in recorded : InLedger(e)

-----------------------------------------------------------------------------
(* Properties of the SIGINT handlers *)

\* C22: the second interrupt of a process terminates it at once and its
\* handler runs no session teardown; the first interrupt leaves the process
\* running and, in the pytest process, is raised into the running test after
\* the remote cleanup was attempted
C22_SecondInterruptTerminates ==
    lastInterrupt.called =>
        /\ lastInterrupt.count >= 2 =>
              /\ lastInterrupt.outcome = "exit"
              /\ ~lastInterrupt.teardown
              /\ processes[lastInterrupt.by] = "terminated"
        /\ lastInterrupt.count = 1 =>
              /\ processes[lastInterrupt.by] = "running"
              /\ lastInterrupt.by = "pytest" =>
                    /\ lastInterrupt.remote_cleanup
                    /\ lastInterrupt.outcome = "KeyboardInterrupt"

-----------------------------------------------------------------------------
(* Properties of the scheduling scopes *)

\* C23: two test items parameterised with the same app have the same
\* scheduling scope, the id of the app, and are never run at the same time
\* by different workers
C23_SameAppSameScope ==
    /\ \A i1, i2 \in Items :
          i1.app = i2.app =>
             /\ ScopeOf(i1) = ScopeOf(i2)
             /\ ScopeOf(i1) = i1.app
    /\ \A w1, w2 \in XWorkers :
          (w1 # w2 /\ running[w1] # NoItem /\ running[w2] # NoItem) =>
             running[w1].app # running[w2].app

\* two workers run items at the same time, and an item of the app one of
\* them runs, of another class, is assigned to the same worker
C23_Witness ==
    /\ running[1] # NoItem
    /\ running[2] # NoItem
    /\ \E item \in Items :
          /\ item.app = running[1].app
          /\ item.cls # running[1].cls
          /\ assigned[item] = 1

-----------------------------------------------------------------------------
(* Properties of the batch of process_deferred_restarts *)

\* C24: the batch of process_deferred_restarts issues start and restart
\* commands only for the apps that had an entry in the queue when it was
\* swapped out
C24_OnlyCollectedApps ==
    lastSwap.called =>
        /\ \A i \in 1..Len(cmdLog) :
              (cmdLog[i].by = "deferred" /\ cmdLog[i].cmd \in LifecycleCmds) =>
                 cmdLog[i].app \in lastSwap.apps
        /\ \A a \in Apps :
              (workers[a].by = "deferred" /\ workers[a].cmd \in LifecycleCmds) =>
                 a \in lastSwap.apps

-----------------------------------------------------------------------------
(* Properties of the status cache *)

\* C25: a status check_app_status returns from the cache was obtained by a
\* probe of that app no more than 30 seconds before the call
C25_CachedStatusIsFresh ==
    (lastStatus.called /\ lastStatus.hit) =>
        lastStatus.at - lastStatus.probed_at <= CacheMaxAge

-----------------------------------------------------------------------------
(* Properties of the parsers of the `cf apps` listing *)

SingleReturned ==
    /\ pc = "done"
    /\ op = "restart_single_app_if_needed"
    /\ lastParse.called
    /\ lastParse.fn = "single"

\* the status the batch probe gives the app for the same listing
ObservedStatus(listing, a) == LineStatus(ListingLine(listing, a))

IssuedFor(a, c) ==
    \E i \in 1..Len(cmdLog) : cmdLog[i].cmd = c /\ cmdLog[i].app = a

\* C28: restart_single_app_if_needed decides as the batch table does: an app
\* the listing shows running is restarted, an app it shows stopped or
\* crashed is started or restarted, an app of unknown status is restarted
C28_SingleFollowsTable ==
    (SingleReturned /\ ~lastParse.listFailed
        /\ ListingLine(lastParse.listing, lastParse.app) # NoLine) =>
        LET st == ObservedStatus(lastParse.listing, lastParse.app)
            a  == lastParse.app
        IN  /\ st = "running" => IssuedFor(a, "restart")
            /\ st \in {"stopped", "crashed"} =>
                  IssuedFor(a, "start") \/ IssuedFor(a, "restart")
            /\ st = "unknown" => IssuedFor(a, "restart")

\* the lines of the listing whose first column is the name of app a
ExactRows(listing, a) == SelectSeq(listing, LAMBDA row : FirstColumnIs(row, a))

\* C29: only a line whose first column is the name of the app decides the
\* app's status in check_all_apps_status and its restart in
\* restart_single_app_if_needed; the lines of other apps change nothing
C29_ExactNameDecides ==
    /\ (pc = "done" /\ lastParse.called /\ lastParse.fn = "all") =>
          \A a \in Apps :
             LET exact == ExactRows(lastParse.listing, a)
             IN  IF \E i \in 1..Len(exact) : LineCounts(exact[i].line)
                 THEN /\ ~IssuedFor(a, "app")
                      /\ \E i \in 1..Len(exact) :
                            app_statuses[a] = LineStatus(exact[i].line)
                 ELSE IssuedFor(a, "app")
    /\ SingleReturned =>
          LET a == lastParse.app
              r == restart_single_app_if_needed(
                       a, lastParse.listFailed,
                       SingleMatch(ExactRows(lastParse.listing, a), a),
                       lastParse.ok, "direct")
          IN  /\ cmdLog = r[2]
              /\ success = r[1]

-----------------------------------------------------------------------------
(* Properties of a session that is not logged in *)

\* the commands a step adds to the command log
IssuedByStep ==
    IF Len(cmdLog') >= Len(cmdLog) /\ SubSeq(cmdLog', 1, Len(cmdLog)) = cmdLog
    THEN SubSeq(cmdLog', Len(cmdLog) + 1, Len(cmdLog'))
    ELSE cmdLog'

LifecycleCommands == {"push", "start", "restart", "delete", "apps"}

\* C30: in a session that is set up and not logged in, no step of the
\* session's hooks (setup, initial restart, the wrapper after a test, the
\* hook after a failed test, teardown) issues push, start, restart, delete
\* or an apps listing
C30_NoControlPlaneWhenLoggedOut ==
    [][((initialized /\ ~cf_logged_in) \/ (initialized' /\ ~cf_logged_in')) =>
          \A i \in 1..Len(IssuedByStep) :
             IssuedByStep[i].cmd \notin LifecycleCommands]_vars

\* the restart commands the hooks after the test have issued for its app
AfterTestRestarts ==
    Cardinality({i \in 1..Len(cmdLog) :
                    /\ cmdLog[i].cmd = "restart"
                    /\ cmdLog[i].app = test.app
                    /\ cmdLog[i].by \in {"after_test", "failure"}})

\* C36: the wrapper of the test and the hook after a failed test together
\* issue at most one restart command for the app of the test
C36_NoDoubleRestart ==
    (test.running /\ pc \in {"teardown", "done"} /\ op = "test") =>
        AfterTestRestarts <= 1

-----------------------------------------------------------------------------
(* Properties of the manager under concurrency *)

\* the add calls that appended an entry for app a and class c
AppendsOf(a, c) ==
    Cardinality({t \in appended : tcall[t].app = a /\ tcall[t].test_class = c})

\* the entries for app a and class c the clear and process calls took out
CollectedOf(a, c) ==
    Cardinality({<<t, i>> \in Threads \X (1..NumThreads) :
                    /\ i <= Len(collected[t])
                    /\ collected[t][i].app = a
                    /\ collected[t][i].test_class = c})

\* the entries for app a and class c in the persisted queue
QueuedOf(a, c) ==
    Cardinality({i \in 1..Len(load_restart_state) :
                    /\ load_restart_state[i].app = a
                    /\ load_restart_state[i].test_class = c})

\* C38: whatever the interleaving of add, clear and process calls of the
\* threads of one process, every entry that was added is in the batch of
\* exactly one clear or process call or still in the persisted queue, never
\* both and never in neither
C38_AddedEntriesAreConserved ==
    \A a \in Apps, c \in TestClasses :
        /\ AppendsOf(a, c) = CollectedOf(a, c) + QueuedOf(a, c)
        /\ QueuedOf(a, c) <= 1

\* two threads added the same app for the same class around a process call
\* of a third: one entry was collected, the other is queued
C38_Witness ==
    /\ Cardinality(appended) = 2
    /\ \A t \in appended : tcall[t].app = 1 /\ tcall[t].test_class = "ClassA"
    /\ CollectedOf(1, "ClassA") = 1
    /\ QueuedOf(1, "ClassA") = 1
    /\ \E t \in Threads :
          /\ tcall[t].called
          /\ tcall[t].fn = "process_deferred_restarts"
          /\ tpc[t] = "external"

\* C39: the lock of the manager is not held by a thread that runs an
\* external command nor by a thread that waits for it, and every call of
\* login, reset_global_login_state, add_deferred_restart_app,
\* clear_deferred_restart_apps and process_deferred_restarts returns: from
\* some point on no call is in progress
C39_LockNeverBlocksForEver ==
    /\ [](\A t \in Threads :
             tpc[t] \in {"external", "acquire"} => mgr_lock # t)
    /\ <>[](\A t \in Threads : tpc[t] \in {"idle", "returned"})

\* a login waits for the lock to write the state while the thread that
\* holds it is about to take the entry of a third out of the queue
C39_Witness ==
    \E t, u \in Threads :
        /\ tcall[t].called /\ tcall[t].fn = "login" /\ tcall[t].phase = "save"
        /\ tpc[t] = "acquire"
        /\ mgr_lock = u
        /\ tcall[u].called /\ tcall[u].fn = "process_deferred_restarts"
        /\ tpc[u] = "locked"
        /\ load_restart_state # <<>>

====
